---- MODULE Spec2Model ----
(***************************************************************************)
(* Model of the etl-adsbx task: Task.control (the enrichment and filtering *)
(* pipeline), buildRemarks / updateRemarks, the include index, parseCSV,   *)
(* and the CSV download with the Google Drive helper.                      *)
(*                                                                         *)
(* Text.  A JavaScript string is modelled as a sequence of tokens.  The    *)
(* characters the code inspects are tokens by themselves: the line break   *)
(* "\n", the blank " ", the colon ":", the comma ",", the underscore "_",  *)
(* the hyphen "-" and the placeholder "$CALLSIGN".  Every other token is a *)
(* word: a maximal run of characters none of which the code inspects.  No  *)
(* operation of the code splits a word, and the code joins texts only at   *)
(* the fixed places of the icon path and of the callsign template, so two  *)
(* texts are compared as token sequences.                                  *)
(*                                                                         *)
(* Optional values.  A property that may be undefined is modelled as a     *)
(* sequence of length at most one: <<>> is undefined, <<v>> is the value v.*)
(***************************************************************************)
EXTENDS Integers, Sequences, FiniteSets, TLC

----------------------------------------------------------------------------
(* Optional values *)

Undefined == <<>>

Some(v) == <<v>>

IsDef(o) == o # <<>>

Val(o) == o[1]

(* JavaScript truthiness of an optional string: defined and not empty. *)
Truthy(o) == IsDef(o) /\ Val(o) # <<>>

----------------------------------------------------------------------------
(* String primitives of the JavaScript runtime, on token sequences *)

IsWhitespace(t) == t \in {" ", "\n"}

RECURSIVE TrimStart(_)
TrimStart(s) ==
    IF s = <<>> THEN <<>>
    ELSE IF IsWhitespace(Head(s)) THEN TrimStart(Tail(s)) ELSE s

RECURSIVE TrimEnd(_)
TrimEnd(s) ==
    IF s = <<>> THEN <<>>
    ELSE IF IsWhitespace(s[Len(s)]) THEN TrimEnd(SubSeq(s, 1, Len(s) - 1)) ELSE s

(* String.prototype.trim *)
Trim(s) == TrimEnd(TrimStart(s))

(* Lower-case form of a word; the special tokens have no case. *)
LowerToken(t) ==
    CASE t = "A1" -> "a1"
      [] t = "A2" -> "a2"
      [] t = "N1" -> "n1"
      [] t = "N2" -> "n2"
      [] t = "Domain" -> "domain"
      [] t = "ICAO" -> "icao"
      [] t = "HEX" -> "hex"
      [] t = "Registration" -> "registration"
      [] t = "Group" -> "group"
      [] t = "Callsign" -> "callsign"
      [] t = "Comments" -> "comments"
      [] t = "Comment" -> "comment"
      [] t = "TYPE" -> "type"
      [] t = "Agency" -> "agency"
      [] OTHER -> t

(* String.prototype.toLowerCase *)
ToLowerCase(s) == [i \in 1..Len(s) |-> LowerToken(s[i])]

(* String.prototype.indexOf(token): the 0-based position, -1 when absent. *)
IndexOf(s, t) ==
    IF \E i \in 1..Len(s) : s[i] = t
    THEN (CHOOSE i \in 1..Len(s) : s[i] = t /\ \A j \in 1..(i - 1) : s[j] # t) - 1
    ELSE -1

(* String.prototype.includes(token) *)
Includes(s, t) == IndexOf(s, t) >= 0

(* String.prototype.substring(from, to), 0-based, end exclusive *)
Substring(s, from, to) == SubSeq(s, from + 1, to)

(* String.prototype.split(separator): always at least one piece. *)
RECURSIVE Split(_, _)
Split(s, sep) ==
    LET k == IndexOf(s, sep)
    IN  IF k < 0 THEN <<s>>
        ELSE <<Substring(s, 0, k)>> \o Split(Substring(s, k + 1, Len(s)), sep)

(* Array.prototype.join(separator) *)
RECURSIVE Join(_, _)
Join(parts, sep) ==
    IF parts = <<>> THEN <<>>
    ELSE IF Len(parts) = 1 THEN parts[1]
    ELSE parts[1] \o <<sep>> \o Join(Tail(parts), sep)

(* String.prototype.replace(/_/g, '-') *)
ReplaceUnderscores(s) == [i \in 1..Len(s) |-> IF s[i] = "_" THEN "-" ELSE s[i]]

(* String.prototype.replace(token, by): the first occurrence only. *)
ReplaceFirst(s, t, by) ==
    LET k == IndexOf(s, t)
    IN  IF k < 0 THEN s
        ELSE Substring(s, 0, k) \o by \o Substring(s, k + 1, Len(s))

----------------------------------------------------------------------------
(* Insertion-ordered maps (JavaScript Map, and the own properties of a     *)
(* plain object with non-numeric keys): a sequence of <<key, value>> pairs *)
(* with distinct keys, in insertion order.                                 *)

MapHas(m, k) == \E i \in 1..Len(m) : m[i][1] = k

MapIndex(m, k) == CHOOSE i \in 1..Len(m) : m[i][1] = k

(* Map.prototype.get: undefined when the key is absent. *)
MapGet(m, k) == IF MapHas(m, k) THEN Some(m[MapIndex(m, k)][2]) ELSE Undefined

(* Map.prototype.set the way a first-write-wins map would do it. *)
MapSetKeepFirst(m, k, v) ==
    IF MapHas(m, k) THEN m ELSE Append(m, <<k, v>>)

(* Map.prototype.set: an existing key keeps its position and takes the new value. *)
MapSet(m, k, v) ==
    IF MapHas(m, k)
    THEN [m EXCEPT ![MapIndex(m, k)] = <<k, v>>]
    ELSE Append(m, <<k, v>>)

(* delete obj[k] *)
MapDelete(m, k) ==
    IF MapHas(m, k)
    THEN SubSeq(m, 1, MapIndex(m, k) - 1) \o SubSeq(m, MapIndex(m, k) + 1, Len(m))
    ELSE m

MapKeys(m) == [i \in 1..Len(m) |-> m[i][1]]

MapValues(m) == [i \in 1..Len(m) |-> m[i][2]]

KeySet(m) == {m[i][1] : i \in 1..Len(m)}

RECURSIVE SelectSeqBy(_, _)
(* the elements of q that are members of the set keep, in order *)
SelectSeqBy(q, keep) ==
    IF q = <<>> THEN <<>>
    ELSE IF Head(q) \in keep THEN <<Head(q)>> \o SelectSeqBy(Tail(q), keep)
    ELSE SelectSeqBy(Tail(q), keep)

----------------------------------------------------------------------------
(* Remarks Builder *)

LblFlight == <<"Flight">>
LblCallsign == <<"Callsign">>
LblRegistration == <<"Registration">>
LblAgency == <<"Agency">>
LblType == <<"Type">>
LblCategory == <<"Category">>
LblAltBaro == <<"Alt", " ", "Baro">>
LblAltGeom == <<"Alt", " ", "Geom">>
LblEmergency == <<"Emergency">>
LblSquawk == <<"Squawk">>
LblGroup == <<"Group">>
LblComments == <<"Comments">>

StrUnknown == <<"Unknown">>
StrUNKNOWN == <<"UNKNOWN">>
StrNone == <<"None">>

(* The fixed label order of buildRemarks and updateRemarks. *)
orderedKeys ==
    << LblFlight, LblCallsign, LblRegistration, LblAgency, LblType, LblCategory,
       LblAltBaro, LblAltGeom, LblEmergency, LblSquawk, LblGroup, LblComments >>

(* `${key}: ${value}` *)
RemarkLine(key, value) == key \o <<":", " ">> \o value

(* orderedKeys.filter(key => key in remarksObj).map(...) *)
OrderedLines(remarksObj) ==
    LET present == SelectSeqBy(orderedKeys, KeySet(remarksObj))
    IN  [i \in 1..Len(present) |->
            RemarkLine(present[i], Val(MapGet(remarksObj, present[i])))]

(* aircraft.x || 'Unknown' *)
OrUnknown(o) == IF Truthy(o) THEN Val(o) ELSE StrUnknown

(* An altitude is a number or a string: [num |-> BOOLEAN, n |-> Int, s |-> text]. *)
AltText(a) == IF a.num THEN <<ToString(a.n), " ", "ft">> ELSE a.s

(* buildRemarks for a builder that leaves out the six labels of lines 765-770 when
   the record has no value for them *)
BuildRemarksObjNoUnknown(aircraft) ==
    LET six == << <<LblFlight, aircraft.flight>>, <<LblRegistration, aircraft.r>>,
                  <<LblType, aircraft.t>>, <<LblCategory, aircraft.category>>,
                  <<LblEmergency, aircraft.emergency>>, <<LblSquawk, aircraft.squawk>> >>
        kept == SelectSeq(six, LAMBDA e : Truthy(e[2]))
        o0 == [i \in 1..Len(kept) |-> <<kept[i][1], Trim(Val(kept[i][2]))>>]
        o1 == IF Truthy(aircraft.callsign)
              THEN MapSet(o0, LblCallsign, Trim(Val(aircraft.callsign))) ELSE o0
        o2 == IF Truthy(aircraft.agency)
              THEN MapSet(o1, LblAgency, Trim(Val(aircraft.agency))) ELSE o1
        o3 == IF IsDef(aircraft.alt_baro)
              THEN MapSet(o2, LblAltBaro, AltText(Val(aircraft.alt_baro))) ELSE o2
        o4 == IF IsDef(aircraft.alt_geom)
              THEN MapSet(o3, LblAltGeom, AltText(Val(aircraft.alt_geom))) ELSE o3
        o5 == IF /\ Truthy(aircraft.group)
                 /\ Trim(Val(aircraft.group)) # StrNone
                 /\ Trim(Val(aircraft.group)) # StrUNKNOWN
              THEN MapSet(o4, LblGroup, Trim(ReplaceUnderscores(Val(aircraft.group))))
              ELSE o4
        o6 == IF Truthy(aircraft.comments)
              THEN MapSet(o5, LblComments, Trim(Val(aircraft.comments))) ELSE o5
    IN  o6

(* buildRemarks(aircraft): the object of label values, in insertion order. *)
BuildRemarksObj(aircraft) ==
    LET o0 == << <<LblFlight, Trim(OrUnknown(aircraft.flight))>>,
                 <<LblRegistration, Trim(OrUnknown(aircraft.r))>>,
                 <<LblType, Trim(OrUnknown(aircraft.t))>>,
                 <<LblCategory, Trim(OrUnknown(aircraft.category))>>,
                 <<LblEmergency, Trim(OrUnknown(aircraft.emergency))>>,
                 <<LblSquawk, Trim(OrUnknown(aircraft.squawk))>> >>
        o1 == IF Truthy(aircraft.callsign)
              THEN MapSet(o0, LblCallsign, Trim(Val(aircraft.callsign))) ELSE o0
        o2 == IF Truthy(aircraft.agency)
              THEN MapSet(o1, LblAgency, Trim(Val(aircraft.agency))) ELSE o1
        o3 == IF IsDef(aircraft.alt_baro)
              THEN MapSet(o2, LblAltBaro, AltText(Val(aircraft.alt_baro))) ELSE o2
        o4 == IF IsDef(aircraft.alt_geom)
              THEN MapSet(o3, LblAltGeom, AltText(Val(aircraft.alt_geom))) ELSE o3
        o5 == IF /\ Truthy(aircraft.group)
                 /\ Trim(Val(aircraft.group)) # StrNone
                 /\ Trim(Val(aircraft.group)) # StrUNKNOWN
              THEN MapSet(o4, LblGroup, Trim(ReplaceUnderscores(Val(aircraft.group))))
              ELSE o4
        o6 == IF Truthy(aircraft.comments)
              THEN MapSet(o5, LblComments, Trim(Val(aircraft.comments))) ELSE o5
    IN  o6

buildRemarks(aircraft) == Join(OrderedLines(BuildRemarksObj(aircraft)), "\n")

(* updateRemarks, lines 867-875: the label of a line, and whether it has one. *)
HasLabel(line) == IndexOf(line, ":") > 0

LineKey(line) == Trim(Substring(line, 0, IndexOf(line, ":")))

LineValue(line) == Trim(Substring(line, IndexOf(line, ":") + 1, Len(line)))

RECURSIVE ParseLines(_, _)
ParseLines(lines, remarksObj) ==
    IF lines = <<>> THEN remarksObj
    ELSE ParseLines(Tail(lines),
                    IF HasLabel(Head(lines))
                    THEN MapSet(remarksObj, LineKey(Head(lines)), LineValue(Head(lines)))
                    ELSE remarksObj)

ParseRemarks(remarks) == ParseLines(Split(remarks, "\n"), <<>>)

(* updateRemarks, lines 877-886: updates is a sequence of <<key, value>>   *)
(* pairs, the value <<>> for null and <<text>> for a string.               *)
RECURSIVE ApplyUpdates(_, _)
ApplyUpdates(remarksObj, updates) ==
    IF updates = <<>> THEN remarksObj
    ELSE ApplyUpdates(
            IF IsDef(Head(updates)[2])
            THEN MapSet(remarksObj, Head(updates)[1], Val(Head(updates)[2]))
            ELSE MapDelete(remarksObj, Head(updates)[1]),
            Tail(updates))

(* updateRemarks, lines 888-906 *)
SerializeRemarks(remarksObj) ==
    LET rest == SelectSeqBy(MapKeys(remarksObj),
                            KeySet(remarksObj) \ {orderedKeys[i] : i \in 1..Len(orderedKeys)})
    IN  Join(OrderedLines(remarksObj)
             \o [i \in 1..Len(rest) |-> RemarkLine(rest[i], Val(MapGet(remarksObj, rest[i])))],
             "\n")

updateRemarks(remarks, updates) ==
    SerializeRemarks(ApplyUpdates(ParseRemarks(remarks), updates))

----------------------------------------------------------------------------
(* Records of the provider (AircraftData) and of the include list *)

BlankAircraft ==
    [ hex |-> Undefined, flight |-> Undefined, r |-> Undefined, t |-> Undefined,
      category |-> Undefined, squawk |-> Undefined, emergency |-> Undefined,
      alt_baro |-> Undefined, alt_geom |-> Undefined, dbFlags |-> Undefined,
      group |-> Undefined, cot_type |-> Undefined, comments |-> Undefined,
      callsign |-> Undefined, agency |-> Undefined, gs |-> Undefined ]

BlankInclude ==
    [ domain |-> <<"MIL">>, group |-> Undefined, agency |-> Undefined,
      ICAO_hex |-> Undefined, registration |-> Undefined, callsign |-> Undefined,
      cot_type |-> Undefined, comments |-> Undefined ]

PLACEHOLDER == "$CALLSIGN"

PUBLIC_SAFETY_AIR_ICON_PATH ==
    << "66f14976", "-", "4b62", "-", "4023", "-", "8edb", "-", "d8d2ebeaa336",
       "/Public", " ", "Safety", " ", "Air/" >>

VALID_ICON_GROUPS ==
    {
      <<"a", "-", "f", "-", "A", "-", "M", "-", "F", "-", "A">>,
      <<"a", "-", "f", "-", "A", "-", "M", "-", "F", "-", "C">>,
      <<"a", "-", "f", "-", "A", "-", "M", "-", "F", "-", "J">>,
      <<"a", "-", "f", "-", "A", "-", "M", "-", "F", "-", "O">>,
      <<"a", "-", "f", "-", "A", "-", "M", "-", "F", "-", "Q">>,
      <<"a", "-", "f", "-", "A", "-", "M", "-", "F", "-", "R", "-", "Z">>,
      <<"a", "-", "f", "-", "A", "-", "M", "-", "F", "-", "R">>,
      <<"a", "-", "f", "-", "A", "-", "M", "-", "F", "-", "U">>,
      <<"a", "-", "f", "-", "A", "-", "M", "-", "F", "-", "V">>,
      <<"a", "-", "f", "-", "A", "-", "M", "-", "F", "-", "WX">>,
      <<"a", "-", "f", "-", "A", "-", "M", "-", "F", "-", "Y">>,
      <<"a", "-", "f", "-", "A", "-", "M", "-", "H", "-", "H">>,
      <<"a", "-", "f", "-", "A", "-", "M", "-", "H", "-", "R">>,
      <<"a", "-", "f", "-", "A", "-", "M", "-", "H", "-", "V">>,
      <<"a", "-", "f", "-", "A", "-", "M", "-", "H">>,
      <<"a", "-", "n", "-", "A", "-", "M", "-", "F", "-", "V">>,
      <<"CIV", "_", "FIXED", "_", "CAP">>,
      <<"CIV", "_", "FIXED", "_", "ISR">>,
      <<"CIV", "_", "LTA", "_", "AIRSHIP">>,
      <<"CIV", "_", "LTA", "_", "BALLOON">>,
      <<"CIV", "_", "LTA", "_", "TETHERED">>,
      <<"CIV", "_", "ROTOR", "_", "ISR">>,
      <<"CIV", "_", "UAS">>,
      <<"CIV", "_", "UAS", "_", "ROTOR">>,
      <<"EMS", "_", "FIXED", "_", "WING">>,
      <<"EMS", "_", "ROTOR">>,
      <<"EMS", "_", "ROTOR", "_", "RESCUE">>,
      <<"FED", "_", "FIXED", "_", "WING">>,
      <<"FED", "_", "FIXED", "_", "WING", "_", "ISR">>,
      <<"FED", "_", "ROTOR">>,
      <<"FED", "_", "ROTOR", "_", "RESCUE">>,
      <<"FED", "_", "UAS">>,
      <<"FIRE", "_", "AIR", "_", "ATTACK">>,
      <<"FIRE", "_", "AIR", "_", "TANKER">>,
      <<"FIRE", "_", "INTEL">>,
      <<"FIRE", "_", "LEAD", "_", "PLANE">>,
      <<"FIRE", "_", "MULTI", "_", "USE">>,
      <<"FIRE", "_", "ROTOR">>,
      <<"FIRE", "_", "ROTOR", "_", "AIR", "_", "ATTACK">>,
      <<"FIRE", "_", "ROTOR", "_", "INTEL">>,
      <<"FIRE", "_", "ROTOR", "_", "RESCUE">>,
      <<"FIRE", "_", "SEAT">>,
      <<"FIRE", "_", "SMOKE", "_", "JMPR">>,
      <<"FIRE", "_", "UAS">>,
      <<"LE", "_", "FIXED", "_", "WING">>,
      <<"LE", "_", "FIXED", "_", "WING", "_", "ISR">>,
      <<"LE", "_", "ROTOR">>,
      <<"LE", "_", "ROTOR", "_", "RESCUE">>,
      <<"LE", "_", "UAS">>,
      <<"MIL", "_", "ROTOR", "_", "ISR", "_", "RESCUE">>,
      <<"MIL", "_", "ROTOR", "_", "MED", "_", "RESCUE">>
    }

----------------------------------------------------------------------------
(* Include Index: lines 508-512 and 633-643 *)

(* include.registration.toLowerCase().trim() *)
NormKey(s) == Trim(ToLowerCase(s))

RECURSIVE BuildRegistrationMap(_, _)
BuildRegistrationMap(includes, m) ==
    IF includes = <<>> THEN m
    ELSE BuildRegistrationMap(
            Tail(includes),
            IF Truthy(Head(includes).registration)
            THEN MapSet(m, NormKey(Val(Head(includes).registration)), Head(includes))
            ELSE m)

RECURSIVE BuildHexMap(_, _)
BuildHexMap(includes, m) ==
    IF includes = <<>> THEN m
    ELSE BuildHexMap(
            Tail(includes),
            IF Truthy(Head(includes).ICAO_hex)
            THEN MapSet(m, NormKey(Val(Head(includes).ICAO_hex)), Head(includes))
            ELSE m)

----------------------------------------------------------------------------
(* Enrichment Joiner, first pass: lines 709-746 *)

(* The include entry the first pass resolves for a record with a truthy hex. *)
FirstPassInclude(ac, id, hexM, regM) ==
    LET byHex == MapGet(hexM, NormKey(Val(ac.hex)))
    IN  IF IsDef(byHex) THEN byHex ELSE MapGet(regM, id)

(* lines 738-741 alone: the template is assigned as it is *)
FinalCallsignVerbatim(template, ac) == template

(* lines 732-741, 960-969, 1062-1070: the callsign an entry gives a record *)
FinalCallsign(template, ac) ==
    IF Includes(template, PLACEHOLDER)
    THEN ReplaceFirst(template, PLACEHOLDER,
                      IF Truthy(ac.flight) THEN Trim(Val(ac.flight)) ELSE <<>>)
    ELSE template

(* lines 722-746 *)
Overlay(ac, include) ==
    IF ~IsDef(include) THEN ac
    ELSE LET inc == Val(include)
         IN  [ac EXCEPT
                !.group = IF IsDef(inc.group) THEN inc.group ELSE @,
                !.cot_type = IF IsDef(inc.cot_type) THEN inc.cot_type ELSE @,
                !.comments = IF IsDef(inc.comments) THEN inc.comments ELSE @,
                !.callsign = IF IsDef(inc.callsign)
                             THEN Some(FinalCallsign(Val(inc.callsign), ac)) ELSE @,
                !.agency = IF IsDef(inc.agency) THEN inc.agency ELSE @]

----------------------------------------------------------------------------
(* Record Normalizer and Feature Assembler: lines 649-856 *)

(* lines 681-700 with the case of 'A7' among the fixed-wing cases *)
ClassificationSuffixA7Fixed(ac) ==
    IF ~IsDef(ac.category) THEN <<>>
    ELSE IF Val(ac.category) \in {<<"A0">>, <<"A1">>, <<"A2">>, <<"A3">>,
                                  <<"A4">>, <<"A5">>, <<"A6">>, <<"A7">>} THEN <<"-", "F">>
    ELSE IF Val(ac.category) = <<"B2">> THEN <<"-", "L">>
    ELSE <<>>

(* lines 681-700 *)
ClassificationSuffix(ac) ==
    IF ~IsDef(ac.category) THEN <<>>
    ELSE IF Val(ac.category) \in {<<"A0">>, <<"A1">>, <<"A2">>, <<"A3">>,
                                  <<"A4">>, <<"A5">>, <<"A6">>} THEN <<"-", "F">>
    ELSE IF Val(ac.category) = <<"A7">> THEN <<"-", "H">>
    ELSE IF Val(ac.category) = <<"B2">> THEN <<"-", "L">>
    ELSE <<>>

(* lines 704-707 with the test of bit 0 left out *)
CivMilSuffixIfPresent(ac) ==
    IF IsDef(ac.dbFlags) THEN <<"-", "M">> ELSE <<"-", "C">>

(* lines 704-707 *)
CivMilSuffix(ac) ==
    IF IsDef(ac.dbFlags) /\ Val(ac.dbFlags) % 2 # 0 THEN <<"-", "M">> ELSE <<"-", "C">>

(* JavaScript truthiness of a.b || c || '' on optional strings *)
OrElse(a, b) == IF Truthy(a) THEN Val(a) ELSE IF Truthy(b) THEN Val(b) ELSE <<>>

(* lines 841-850 without the membership test of line 844 *)
IconOfAnyGroup(ac, useIcon) ==
    IF /\ Truthy(ac.group)
       /\ Trim(Val(ac.group)) # StrUNKNOWN
       /\ Trim(Val(ac.group)) # StrNone
       /\ useIcon
    THEN Some(PUBLIC_SAFETY_AIR_ICON_PATH \o Trim(Val(ac.group)) \o <<".png">>)
    ELSE Undefined

(* lines 841-850 *)
IconOf(ac, useIcon) ==
    IF /\ Truthy(ac.group)
       /\ Trim(Val(ac.group)) # StrUNKNOWN
       /\ Trim(Val(ac.group)) # StrNone
       /\ useIcon
       /\ Trim(Val(ac.group)) \in VALID_ICON_GROUPS
    THEN Some(PUBLIC_SAFETY_AIR_ICON_PATH \o Trim(Val(ac.group)) \o <<".png">>)
    ELSE Undefined

(* lines 817 and 853-855 without the 'None' and 'UNKNOWN' tests of line 853 *)
TypeOfAnyOverride(ac) ==
    IF Truthy(ac.cot_type)
    THEN Trim(Val(ac.cot_type))
    ELSE <<"a", "-", "f", "-", "A">> \o CivMilSuffix(ac) \o ClassificationSuffix(ac)

(* lines 817 and 853-855 *)
TypeOf(ac) ==
    IF /\ Truthy(ac.cot_type)
       /\ Trim(Val(ac.cot_type)) # StrNone
       /\ Trim(Val(ac.cot_type)) # StrUNKNOWN
    THEN Trim(Val(ac.cot_type))
    ELSE <<"a", "-", "f", "-", "A">> \o CivMilSuffix(ac) \o ClassificationSuffix(ac)

(* line 25: FEET_TO_METERS = 0.3048, in ten-thousandths of a metre, so that *)
(* the altitude of a feature is an integer number of those units.          *)
FEET_TO_METERS == 3048

(* parseFloat of a word: the number its longest numeric prefix denotes, or *)
(* NaN (Undefined) when it has none.                                       *)
ParseFloatWord(w) ==
    CASE w = "1200" -> Some(1200)
      [] w = "1200ft" -> Some(1200)
      [] w = "0" -> Some(0)
      [] OTHER -> Undefined

(* parseFloat(text): leading white space is skipped, then the number is read. *)
parseFloat(s) ==
    IF TrimStart(s) = <<>> THEN Undefined ELSE ParseFloatWord(TrimStart(s)[1])

(* typeof a === 'string' ? parseFloat(a) : a, with NaN as Undefined *)
AltitudeNumber(a) == IF a.num THEN Some(a.n) ELSE parseFloat(a.s)

(* lines 659-667: altitudeValue, undefined or NaN as Undefined *)
AltitudeValue(ac) ==
    IF IsDef(ac.alt_geom) THEN AltitudeNumber(Val(ac.alt_geom))
    ELSE IF IsDef(ac.alt_baro) THEN AltitudeNumber(Val(ac.alt_baro))
    ELSE Undefined

(* lines 669-675: the third coordinate, Number.NaN as Undefined *)
Altitude(ac) ==
    IF IsDef(AltitudeValue(ac)) THEN Some(Val(AltitudeValue(ac)) * FEET_TO_METERS)
    ELSE Undefined

(* line 22, in ten-millionths: 1 knot = 0.5144444 m/s *)
KNOTS_TO_MPS == 5144444

(* line 821 for a task that reports an unknown speed as 0 *)
SpeedOrZero(ac) ==
    IF IsDef(ac.gs) /\ Val(ac.gs).num THEN Some(Val(ac.gs).n * KNOTS_TO_MPS) ELSE Some(0)

(* line 821: typeof ac.gs === 'number' ? ac.gs * KNOTS_TO_MPS : Number.NaN, in
   ten-millionths of a metre per second, Number.NaN as Undefined *)
SpeedOf(ac) ==
    IF IsDef(ac.gs) /\ Val(ac.gs).num THEN Some(Val(ac.gs).n * KNOTS_TO_MPS) ELSE Undefined

(* lines 816-855: the feature of an enriched record *)
MakeFeature(id, ac, useIcon) ==
    [ id |-> id,
      altitude |-> Altitude(ac),
      speed |-> SpeedOf(ac),
      type |-> TypeOf(ac),
      callsign |-> Trim(OrElse(ac.callsign, ac.flight)),
      remarks |-> buildRemarks(ac),
      icon |-> IconOf(ac, useIcon),
      metadata |-> ac ]

----------------------------------------------------------------------------
(* Filter Policy: lines 910-1122 *)

(* The Group update of lines 927-938 and 1028-1039 *)
GroupUpdate(group) ==
    IF Trim(group) # StrNone /\ Trim(group) # StrUNKNOWN
    THEN << <<LblGroup, Some(Trim(ReplaceUnderscores(group)))>> >>
    ELSE << <<LblGroup, Undefined>> >>

(* The update of a label from a text: the trimmed text, or null when it is empty. *)
TextUpdate(label, text) ==
    IF text # <<>> THEN << <<label, Some(Trim(text))>> >> ELSE << <<label, Undefined>> >>

(* lines 923-1006 (hex walk, groupDefined is include.group !== undefined)  *)
(* and 1024-1107 (registration walk, groupDefined is include.group truthy) *)
ApplyInclude(feat, inc, groupDefined) ==
    LET f1 == IF groupDefined
              THEN [feat EXCEPT !.metadata.group = inc.group,
                                !.remarks = updateRemarks(@, GroupUpdate(Val(inc.group)))]
              ELSE feat
        f2 == IF IsDef(inc.comments)
              THEN [f1 EXCEPT !.metadata.comments = inc.comments,
                              !.remarks = updateRemarks(@, TextUpdate(LblComments, Val(inc.comments)))]
              ELSE f1
        fc == IF IsDef(inc.callsign) THEN FinalCallsign(Val(inc.callsign), f2.metadata) ELSE <<>>
        f3 == IF IsDef(inc.callsign)
              THEN [f2 EXCEPT !.metadata.callsign = Some(fc),
                              !.remarks = updateRemarks(@, TextUpdate(LblCallsign, fc))]
              ELSE f2
        f4 == IF IsDef(inc.agency)
              THEN [f3 EXCEPT !.metadata.agency = inc.agency,
                              !.remarks = updateRemarks(@, TextUpdate(LblAgency, Val(inc.agency)))]
              ELSE f3
    IN  f4

(* The state the two walks thread through their loops. *)
WalkState(idsMap, processed, out) == [ids |-> idsMap, processedIds |-> processed, features |-> out]

(* ac.hex && ac.hex.toLowerCase().trim() === hexCode *)
HexMatches(feat, hexCode) ==
    Truthy(feat.metadata.hex) /\ NormKey(Val(feat.metadata.hex)) = hexCode

(* the test of line 1022 without the comparison *)
RegistrationMatchesAny(feat, registration) == Truthy(feat.metadata.r)

(* ac.r && ac.r.toLowerCase().trim() === registration *)
RegistrationMatches(feat, registration) ==
    Truthy(feat.metadata.r) /\ NormKey(Val(feat.metadata.r)) = registration

(* lines 917-1011: the inner loop of the hex walk, from position j of ids *)
RECURSIVE HexInner(_, _, _, _)
HexInner(st, hexCode, inc, j) ==
    IF j > Len(st.ids) THEN st
    ELSE LET id == st.ids[j][1]
             feat == st.ids[j][2]
         IN  IF id \in st.processedIds THEN HexInner(st, hexCode, inc, j + 1)
             ELSE IF HexMatches(feat, hexCode)
             THEN HexInner(
                    WalkState([st.ids EXCEPT ![j] = <<id, ApplyInclude(feat, inc, IsDef(inc.group))>>],
                              st.processedIds \cup {id},
                              Append(st.features, id)),
                    hexCode, inc, j + 1)
             ELSE HexInner(st, hexCode, inc, j + 1)

(* lines 915-1012: the hex walk, from entry k of hexMap *)
RECURSIVE HexWalkFrom(_, _, _)
HexWalkFrom(st, hexM, k) ==
    IF k > Len(hexM) THEN st
    ELSE HexWalkFrom(HexInner(st, hexM[k][1], hexM[k][2], 1), hexM, k + 1)

(* lines 1017-1114 with the processedIds test of line 1018 left out *)
RECURSIVE RegInnerNoSkip(_, _, _, _)
RegInnerNoSkip(st, registration, inc, j) ==
    IF j > Len(st.ids) THEN st
    ELSE LET id == st.ids[j][1]
             feat == st.ids[j][2]
         IN  IF RegistrationMatches(feat, registration)
             THEN WalkState([st.ids EXCEPT ![j] = <<id, ApplyInclude(feat, inc, Truthy(inc.group))>>],
                            st.processedIds \cup {id},
                            Append(st.features, id))
             ELSE RegInnerNoSkip(st, registration, inc, j + 1)

(* lines 1017-1114: the inner loop of the registration walk; it stops at   *)
(* the first match (the break of line 1112).                               *)
RECURSIVE RegInner(_, _, _, _)
RegInner(st, registration, inc, j) ==
    IF j > Len(st.ids) THEN st
    ELSE LET id == st.ids[j][1]
             feat == st.ids[j][2]
         IN  IF id \in st.processedIds THEN RegInner(st, registration, inc, j + 1)
             ELSE IF RegistrationMatches(feat, registration)
             THEN WalkState([st.ids EXCEPT ![j] = <<id, ApplyInclude(feat, inc, Truthy(inc.group))>>],
                            st.processedIds \cup {id},
                            Append(st.features, id))
             ELSE RegInner(st, registration, inc, j + 1)

(* lines 1015-1115: the registration walk, from entry k of includesMap *)
RECURSIVE RegWalkFrom(_, _, _)
RegWalkFrom(st, regM, k) ==
    IF k > Len(regM) THEN st
    ELSE RegWalkFrom(RegInner(st, regM[k][1], regM[k][2], 1), regM, k + 1)

----------------------------------------------------------------------------
(* parseCSV: src/csv-parser.ts *)

(* lines 53-61: the cells of one line, keyed by the header columns *)
RECURSIVE CsvCells(_, _, _, _)
CsvCells(header, values, j, aircraft) ==
    IF j > Len(header) \/ j > Len(values) THEN aircraft
    ELSE CsvCells(header, values, j + 1,
                  IF Trim(values[j]) # <<>>
                  THEN MapSet(aircraft, Trim(header[j]), Trim(values[j]))
                  ELSE aircraft)

(* aircraft.key as an optional text; the cells hold no empty text *)
Cell(aircraft, key) == MapGet(aircraft, key)

(* lines 64-77 *)
MappedAircraft(aircraft) ==
    LET type == Cell(aircraft, <<"type">>)
        comment == Cell(aircraft, <<"comment">>)
    IN  [ domain |-> IF IsDef(Cell(aircraft, <<"domain">>))
                     THEN Val(Cell(aircraft, <<"domain">>)) ELSE <<"MIL">>,
          group |-> IF IsDef(Cell(aircraft, <<"group">>))
                    THEN Cell(aircraft, <<"group">>) ELSE Some(StrUNKNOWN),
          agency |-> Cell(aircraft, <<"agency">>),
          ICAO_hex |-> Cell(aircraft, <<"icao", "_", "hex">>),
          registration |-> Cell(aircraft, <<"registration">>),
          callsign |-> Cell(aircraft, <<"callsign">>),
          cot_type |-> IF IsDef(type) THEN type ELSE Cell(aircraft, <<"cot", "_", "type">>),
          comments |-> IF IsDef(comment) THEN comment ELSE Cell(aircraft, <<"comments">>) ]

(* lines 44-81 *)
RECURSIVE CsvRows(_, _, _)
CsvRows(header, lines, i) ==
    IF i > Len(lines) THEN <<>>
    ELSE IF Trim(lines[i]) = <<>> THEN CsvRows(header, lines, i + 1)
    ELSE <<MappedAircraft(CsvCells(header, Split(Trim(lines[i]), ","), 1, <<>>))>>
         \o CsvRows(header, lines, i + 1)

(* lines 29-84 for a parser that takes the header names as they are written *)
parseCSVCaseSensitive(csvData) ==
    LET lines == Split(csvData, "\n")
        cols == Split(lines[1], ",")
        header == [j \in 1..Len(cols) |-> Trim(cols[j])]
    IN  CsvRows(header, lines, 2)

(* lines 29-84 *)
parseCSV(csvData) ==
    LET lines == Split(csvData, "\n")
        cols == Split(lines[1], ",")
        header == [j \in 1..Len(cols) |-> ToLowerCase(Trim(cols[j]))]
    IN  CsvRows(header, lines, 2)

----------------------------------------------------------------------------
(* Inputs of a run: the configuration, the provider response, the CSV text *)

MaxIncludes == 1
MaxAircraft == 2

SeqsUpTo(S, n) == UNION {[1..k -> S] : k \in 0..n}

FIRE_ROTOR == <<"FIRE", "_", "ROTOR">>
EMS_ROTOR == <<"EMS", "_", "ROTOR">>

(* Entries the operator may have configured (env.ADSBX_Includes). *)
IncludePool ==
    { [BlankInclude EXCEPT !.domain = <<"FIRE">>, !.ICAO_hex = Some(<<"A1", " ">>),
                           !.group = Some(FIRE_ROTOR),
                           !.callsign = Some(<<"RESCUE", " ", PLACEHOLDER>>)],
      [BlankInclude EXCEPT !.domain = <<"EMS">>, !.registration = Some(<<"N1">>),
                           !.group = Some(EMS_ROTOR), !.comments = Some(<<"c1">>),
                           !.agency = Some(<<"AG1">>)],
      [BlankInclude EXCEPT !.ICAO_hex = Some(<<"a1">>), !.registration = Some(<<" ", "n1">>),
                           !.group = Some(StrUNKNOWN),
                           !.cot_type = Some(<<"a", "-", "f", "-", "A", "-", "M", "-", "H">>)],
      [BlankInclude EXCEPT !.domain = <<"LAW">>, !.registration = Some(<<"N2">>),
                           !.group = Some(<<"BOGUS">>), !.callsign = Some(<<>>)] }

(* Records the provider may return in body.ac. *)
AircraftPool ==
    { [BlankAircraft EXCEPT !.hex = Some(<<"A1">>), !.r = Some(<<"N1">>),
                            !.flight = Some(<<"FLT1", " ">>), !.t = Some(<<"H60">>),
                            !.category = Some(<<"A7">>), !.dbFlags = Some(1),
                            !.squawk = Some(<<"1200">>),
                            !.alt_baro = Some([num |-> TRUE, n |-> 1000, s |-> <<>>])],
      [BlankAircraft EXCEPT !.hex = Some(<<" ", "a1">>), !.r = Some(<<"n2", " ">>)],
      [BlankAircraft EXCEPT !.hex = Some(<<"a2">>), !.r = Some(<<"N1">>),
                            !.flight = Some(<<"FLT3">>), !.category = Some(<<"A3">>),
                            !.alt_geom = Some([num |-> FALSE, n |-> 0, s |-> <<"ground">>])],
      [BlankAircraft EXCEPT !.hex = Some(<<" ">>), !.r = Some(<<"N1">>)],
      [BlankAircraft EXCEPT !.r = Some(<<"N1">>)] }

(* Texts the CSV download may return. *)
CsvPool ==
    { << " ", "\n" >>,
      << "Domain", ",", "ICAO", "_", "HEX", ",", "Registration", ",", "Group", "\n",
         "FIRE", ",", "a1", ",", ",", "FIRE", "_", "SEAT", "\n" >>,
      << "registration", ",", "group", ",", "comment", "\n",
         "N1", ",", ",", " ", "c2", "\n", "\n",
         "n2", "\n" >> }

(* env.ADSBX_Includes_URL: unset (the default ''), or the URL of a CSV file *)
UrlPool == { <<>>, <<"https://example.org/includes.csv">> }

Envs ==
    [ ADSBX_Filtering : BOOLEAN, ADSBX_Use_Icon : BOOLEAN,
      ADSBX_Includes : SeqsUpTo(IncludePool, MaxIncludes),
      ADSBX_Includes_URL : UrlPool ]

----------------------------------------------------------------------------
(* Task.control as a state machine *)

VARIABLES
    pc,            \* the position of control: fetch, csv (step by step: download,
                   \* fallback, received), index, assemble, policy, regwalk, submit, done
    env,           \* the configuration of the run
    fetched,       \* how the provider fetch ended: pending, ok, transport, status, format
    body,          \* body.ac, the records as received
    csv,           \* how the CSV step ended: pending, none, failed, empty, merged
    allIncludes,   \* the merged include sequence
    hexMap,        \* the index by ICAO hex
    includesMap,   \* the index by registration
    nextAc,        \* the position of the assembly loop in body.ac
    firstPass,     \* per record visited: whether it was skipped, and the entry resolved
    ids,           \* the features by id
    assembled,     \* ids as it was when the assembly loop ended
    processedIds,  \* the ids the filter walks have emitted
    features,      \* the output array, as the ids of the features pushed
    submitted,     \* the collections handed to the sink, in order
    remarks,       \* Remarks Builder on its own: the remarks text
    updates,       \* Remarks Builder on its own: the update map applied to it
    trace,         \* Remarks Builder on its own: the text at the start and after each update
    attempts,      \* CSV download step by step: the fetches made, in order
    raised,        \* CSV download step by step: the error downloadFromGoogleDrive threw
    csvData        \* CSV download step by step: the text received

remarkVars == << remarks, updates, trace >>

downloadVars == << attempts, raised, csvData >>

vars == << pc, env, fetched, body, csv, allIncludes, hexMap, includesMap, nextAc,
           firstPass, ids, assembled, processedIds, features, submitted, remarkVars,
           downloadVars >>

(* The state of control before it runs, but for the configuration. *)
ControlIdle ==
    /\ fetched = "pending"
    /\ body = <<>>
    /\ csv = "pending"
    /\ allIncludes = <<>>
    /\ hexMap = <<>>
    /\ includesMap = <<>>
    /\ nextAc = 1
    /\ firstPass = <<>>
    /\ ids = <<>>
    /\ assembled = <<>>
    /\ processedIds = {}
    /\ features = <<>>
    /\ submitted = <<>>
    /\ attempts = <<>>
    /\ raised = Undefined
    /\ csvData = Undefined

Init ==
    /\ pc = "fetch"
    /\ env \in Envs
    /\ ControlIdle
    /\ remarks = <<>>
    /\ updates = <<>>
    /\ trace = <<>>

(* The collection the sink receives: the features the output array refers to. *)
Collection(out, idsMap) == [i \in 1..Len(out) |-> Val(MapGet(idsMap, out[i]))]

(* lines 466-493: the fetch answers OK with an 'ac' array *)
FetchOk ==
    /\ pc = "fetch"
    /\ \E ac \in SeqsUpTo(AircraftPool, MaxAircraft) : body' = ac
    /\ fetched' = "ok"
    /\ pc' = "csv"
    /\ UNCHANGED << remarkVars, downloadVars, env, csv, allIncludes, hexMap, includesMap, nextAc, firstPass, ids,
                    assembled, processedIds, features, submitted >>

(* lines 494-502 with the submit and the return left out: the run goes on *)
FetchFailGoesOn ==
    /\ pc = "fetch"
    /\ \E how \in {"transport", "status", "format"} : fetched' = how
    /\ \E ac \in SeqsUpTo(AircraftPool, MaxAircraft) : body' = ac
    /\ pc' = "csv"
    /\ UNCHANGED << remarkVars, downloadVars, env, csv, allIncludes, hexMap, includesMap, nextAc, firstPass, ids,
                    assembled, processedIds, features, submitted >>

(* lines 494-502: the fetch throws, answers not OK, or has no 'ac' array *)
FetchFail ==
    /\ pc = "fetch"
    /\ \E how \in {"transport", "status", "format"} : fetched' = how
    /\ submitted' = Append(submitted, <<>>)
    /\ pc' = "done"
    /\ UNCHANGED << remarkVars, downloadVars, env, body, csv, allIncludes, hexMap, includesMap, nextAc, firstPass,
                    ids, assembled, processedIds, features >>

(* lines 512-515: no URL is configured *)
CsvNone ==
    /\ pc = "csv"
    /\ env.ADSBX_Includes_URL = <<>>
    /\ allIncludes' = env.ADSBX_Includes
    /\ csv' = "none"
    /\ pc' = "index"
    /\ UNCHANGED << remarkVars, downloadVars, env, fetched, body, hexMap, includesMap, nextAc, firstPass, ids,
                    assembled, processedIds, features, submitted >>

(* lines 616-630 for a merge that keeps the rows read before the failure *)
CsvDownloadFailedPartial ==
    /\ pc = "csv"
    /\ env.ADSBX_Includes_URL # <<>>
    /\ \E data \in CsvPool :
          allIncludes' = env.ADSBX_Includes
                            \o (IF parseCSV(data) = <<>> THEN <<>> ELSE <<parseCSV(data)[1]>>)
    /\ csv' = "failed"
    /\ pc' = "index"
    /\ UNCHANGED << remarkVars, downloadVars, env, fetched, body, hexMap, includesMap, nextAc, firstPass, ids,
                    assembled, processedIds, features, submitted >>

(* lines 560-602 and 626-630: the download throws or answers not OK *)
CsvDownloadFailed ==
    /\ pc = "csv"
    /\ env.ADSBX_Includes_URL # <<>>
    /\ allIncludes' = env.ADSBX_Includes
    /\ csv' = "failed"
    /\ pc' = "index"
    /\ UNCHANGED << remarkVars, downloadVars, env, fetched, body, hexMap, includesMap, nextAc, firstPass, ids,
                    assembled, processedIds, features, submitted >>

(* lines 612-614 and 626-630: the text is empty after trimming *)
CsvEmpty ==
    /\ pc = "csv"
    /\ env.ADSBX_Includes_URL # <<>>
    /\ \E data \in CsvPool : Trim(data) = <<>>
    /\ allIncludes' = env.ADSBX_Includes
    /\ csv' = "empty"
    /\ pc' = "index"
    /\ UNCHANGED << remarkVars, downloadVars, env, fetched, body, hexMap, includesMap, nextAc, firstPass, ids,
                    assembled, processedIds, features, submitted >>

(* lines 616-625: the text is parsed and appended to the configured entries *)
CsvMerged ==
    /\ pc = "csv"
    /\ env.ADSBX_Includes_URL # <<>>
    /\ \E data \in CsvPool :
          /\ Trim(data) # <<>>
          /\ allIncludes' = env.ADSBX_Includes \o parseCSV(data)
    /\ csv' = "merged"
    /\ pc' = "index"
    /\ UNCHANGED << remarkVars, downloadVars, env, fetched, body, hexMap, includesMap, nextAc, firstPass, ids,
                    assembled, processedIds, features, submitted >>

(* lines 633-643 *)
BuildIndex ==
    /\ pc = "index"
    /\ includesMap' = BuildRegistrationMap(allIncludes, <<>>)
    /\ hexMap' = BuildHexMap(allIncludes, <<>>)
    /\ pc' = "assemble"
    /\ UNCHANGED << remarkVars, downloadVars, env, fetched, body, csv, allIncludes, nextAc, firstPass, ids,
                    assembled, processedIds, features, submitted >>

(* ids.set for a map that keeps the first feature of an id *)
StoreFeatureKeepFirst(idsMap, id, feat) == MapSetKeepFirst(idsMap, id, feat)

(* lines 827-835: ids.set(id, feature) *)
StoreFeature(idsMap, id, feat) == MapSet(idsMap, id, feat)

(* line 650 alone: the record is skipped *)
SkippedIfFalsy(ac) == ~Truthy(ac.hex)

(* lines 650 and 677: the record is skipped *)
Skipped(ac) == ~Truthy(ac.hex) \/ Trim(NormKey(Val(ac.hex))) = <<>>

(* lines 649-856: one iteration of the assembly loop *)
AssembleOne ==
    /\ pc = "assemble"
    /\ nextAc <= Len(body)
    /\ LET ac == body[nextAc]
       IN  IF Skipped(ac)
           THEN /\ firstPass' = Append(firstPass, [skipped |-> TRUE, include |-> Undefined])
                /\ ids' = ids
           ELSE LET id == NormKey(Val(ac.hex))
                    include == FirstPassInclude(ac, id, hexMap, includesMap)
                IN  /\ firstPass' = Append(firstPass, [skipped |-> FALSE, include |-> include])
                    /\ ids' = StoreFeature(ids, id,
                                     MakeFeature(id, Overlay(ac, include), env.ADSBX_Use_Icon))
    /\ nextAc' = nextAc + 1
    /\ UNCHANGED << remarkVars, downloadVars, pc, env, fetched, body, csv, allIncludes, hexMap, includesMap,
                    assembled, processedIds, features, submitted >>

(* line 856: the assembly loop ends *)
AssembleDone ==
    /\ pc = "assemble"
    /\ nextAc > Len(body)
    /\ assembled' = ids
    /\ pc' = "policy"
    /\ UNCHANGED << remarkVars, downloadVars, env, fetched, body, csv, allIncludes, hexMap, includesMap, nextAc,
                    firstPass, ids, processedIds, features, submitted >>

(* lines 910-1012: filter mode, the walk over the hex index *)
HexWalk ==
    /\ pc = "policy"
    /\ env.ADSBX_Filtering
    /\ LET st == HexWalkFrom(WalkState(ids, processedIds, features), hexMap, 1)
       IN  /\ ids' = st.ids
           /\ processedIds' = st.processedIds
           /\ features' = st.features
    /\ pc' = "regwalk"
    /\ UNCHANGED << remarkVars, downloadVars, env, fetched, body, csv, allIncludes, hexMap, includesMap, nextAc,
                    firstPass, assembled, submitted >>

(* lines 1014-1115: filter mode, the walk over the registration index *)
RegWalk ==
    /\ pc = "regwalk"
    /\ LET st == RegWalkFrom(WalkState(ids, processedIds, features), includesMap, 1)
       IN  /\ ids' = st.ids
           /\ processedIds' = st.processedIds
           /\ features' = st.features
    /\ pc' = "submit"
    /\ UNCHANGED << remarkVars, downloadVars, env, fetched, body, csv, allIncludes, hexMap, includesMap, nextAc,
                    firstPass, assembled, submitted >>

(* The output array of a pass-through that drops the features without an icon. *)
PassThroughIconsOnly(idsMap) ==
    SelectSeqBy(MapKeys(idsMap),
                {idsMap[i][1] : i \in {j \in 1..Len(idsMap) : IsDef(idsMap[j][2].icon)}})

(* lines 1116-1122: the output array of pass-through mode *)
PassThroughFeatures(idsMap) == MapKeys(idsMap)

(* lines 1116-1122: filtering is disabled *)
PassThrough ==
    /\ pc = "policy"
    /\ ~env.ADSBX_Filtering
    /\ features' = PassThroughFeatures(ids)
    /\ pc' = "submit"
    /\ UNCHANGED << remarkVars, downloadVars, env, fetched, body, csv, allIncludes, hexMap, includesMap, nextAc,
                    firstPass, ids, assembled, processedIds, submitted >>

(* lines 1127-1134 for a sink that is handed the features one by one *)
SubmitStreamed ==
    /\ pc = "submit"
    /\ submitted' = submitted \o [i \in 1..Len(features) |-> Collection(<<features[i]>>, ids)]
    /\ pc' = "done"
    /\ UNCHANGED << remarkVars, downloadVars, env, fetched, body, csv, allIncludes, hexMap, includesMap, nextAc,
                    firstPass, ids, assembled, processedIds, features >>

(* lines 1127-1134 *)
Submit ==
    /\ pc = "submit"
    /\ submitted' = Append(submitted, Collection(features, ids))
    /\ pc' = "done"
    /\ UNCHANGED << remarkVars, downloadVars, env, fetched, body, csv, allIncludes, hexMap, includesMap, nextAc,
                    firstPass, ids, assembled, processedIds, features >>

Next ==
    \/ FetchOk
    \/ FetchFail
    \/ CsvNone
    \/ CsvDownloadFailed
    \/ CsvEmpty
    \/ CsvMerged
    \/ BuildIndex
    \/ AssembleOne
    \/ AssembleDone
    \/ HexWalk
    \/ RegWalk
    \/ PassThrough
    \/ Submit

Spec == Init /\ [][Next]_vars

----------------------------------------------------------------------------
(* The Remarks Builder on its own: updateRemarks applied, again and again, *)
(* to a text that buildRemarks produced.                                   *)

MaxUpdates == 1
MaxApplications == 2

(* Records whose remarks the task may build. *)
RemarkRecords ==
    { [BlankAircraft EXCEPT !.flight = flight, !.comments = comments,
                            !.group = group, !.callsign = callsign] :
        flight \in {Undefined, Some(<<"FLT1">>)},
        comments \in {Undefined, Some(<<"c1">>), Some(<<"c1", "\n", "note">>),
                      Some(<<"c1", "\n", "Flight", ":", " ", "X">>)},
        group \in {Undefined, Some(FIRE_ROTOR)},
        callsign \in {Undefined, Some(<<"CS">>)} }

(* Values an update may carry: null, or a text that may hold a line break or a colon. *)
UpdateValues ==
    { Undefined, Some(<<"v">>), Some(<<"a", ":", " ", "b">>),
      Some(<<"c1", "\n", "Flight", ":", " ", "X">>) }

UpdateLabels == {LblGroup, LblComments, LblCallsign, LblAgency}

(* Update maps: up to MaxUpdates labels, each once, in insertion order. *)
UpdateMaps ==
    { u \in SeqsUpTo(UpdateLabels \X UpdateValues, MaxUpdates) :
        \A i, j \in 1..Len(u) : i # j => u[i][1] # u[j][1] }

InitRemarks ==
    /\ pc = "remarks"
    /\ env = [ADSBX_Filtering |-> FALSE, ADSBX_Use_Icon |-> FALSE,
              ADSBX_Includes |-> <<>>, ADSBX_Includes_URL |-> <<>>]
    /\ ControlIdle
    /\ \E ac \in RemarkRecords : remarks = buildRemarks(ac)
    /\ updates \in UpdateMaps
    /\ trace = <<remarks>>

(* One call remarks = updateRemarks(remarks, updates), as in lines 928-1005. *)
UpdateRemarks ==
    /\ pc = "remarks"
    /\ Len(trace) <= MaxApplications
    /\ remarks' = updateRemarks(remarks, updates)
    /\ trace' = Append(trace, remarks')
    /\ UNCHANGED << downloadVars, pc, env, fetched, body, csv, allIncludes, hexMap, includesMap,
                    nextAc, firstPass, ids, assembled, processedIds, features, submitted,
                    updates >>

NextRemarks == UpdateRemarks

SpecRemarks == InitRemarks /\ [][NextRemarks]_vars

----------------------------------------------------------------------------
(* Task.control on one record and at most one entry: the normalizer, the   *)
(* joiner and the assembler over the values a field may take.              *)

AltNum(n) == Some([num |-> TRUE, n |-> n, s |-> <<>>])

AltStr(s) == Some([num |-> FALSE, n |-> 0, s |-> s])

COT_MH == <<"a", "-", "f", "-", "A", "-", "M", "-", "H">>

RecordBase == [BlankAircraft EXCEPT !.hex = Some(<<"A1">>), !.r = Some(<<"N1">>)]

(* Records the provider may return, field by field. *)
RecordPool ==
    { [RecordBase EXCEPT !.alt_geom = g, !.alt_baro = b] :
        g \in {Undefined, AltNum(1000), AltStr(<<"ground">>), AltStr(<<"1200">>),
               AltStr(<<" ", "1200ft">>)},
        b \in {Undefined, AltNum(2000), AltStr(<<"ground">>), AltStr(<<"0">>)} }
    \cup
    { [RecordBase EXCEPT !.dbFlags = d, !.category = c] :
        d \in {Undefined, Some(0), Some(1), Some(2), Some(3)},
        c \in {Undefined, Some(<<"A3">>), Some(<<"A7">>), Some(<<"B2">>), Some(<<"C1">>)} }
    \cup
    { [RecordBase EXCEPT !.category = Some(<<c>>)] :
        c \in {"A0", "A1", "A2", "A3", "A4", "A5", "A6", "A7", "B2", "B1", "A8", "a7"} }
    \cup
    { [RecordBase EXCEPT !.category = Some(<<>>)] }
    \cup
    { [RecordBase EXCEPT !.hex = Some(<<"N1">>), !.r = Some(<<"N2">>)],
      [RecordBase EXCEPT !.comments = Some(<<"pc">>), !.agency = Some(<<"PA">>)],
      [RecordBase EXCEPT !.squawk = Some(<<"1200">>), !.t = Some(<<"H60">>)] }
    \cup
    { [RecordBase EXCEPT !.gs = g] :
        g \in {AltNum(100), AltNum(0), AltNum(7), AltStr(<<"100">>), AltStr(<<>>)} }
    \cup
    { [RecordBase EXCEPT !.flight = f, !.hex = h] :
        f \in {Undefined, Some(<<>>), Some(<<"FLT1", " ">>), Some(<<" ">>)},
        h \in {Some(<<"A1">>), Some(<<" ", "a1">>), Some(<<" ">>), Some(<<>>), Undefined} }

(* Entries of the include list, field by field, keyed by hex or by registration. *)
RecordIncludes ==
    { [BlankInclude EXCEPT !.ICAO_hex = Some(<<"a1">>), !.group = Some(FIRE_ROTOR),
                           !.cot_type = c] :
        c \in {Undefined, Some(COT_MH), Some(<<" ">> \o COT_MH \o <<" ">>), Some(StrNone),
               Some(StrUNKNOWN), Some(<<>>), Some(<<" ">>)} }
    \cup
    { [BlankInclude EXCEPT !.ICAO_hex = Some(<<"a1">>), !.group = Some(StrUNKNOWN),
                           !.callsign = t] :
        t \in {Some(<<"RESCUE", " ", PLACEHOLDER>>), Some(<<"CS1">>), Some(<<>>),
               Some(<<PLACEHOLDER>>)} }
    \cup
    { [BlankInclude EXCEPT !.ICAO_hex = Some(<<"a1">>), !.group = g, !.cot_type = c] :
        g \in {Undefined, Some(<<"BOGUS">>), Some(StrNone), Some(EMS_ROTOR)},
        c \in {Undefined, Some(COT_MH)} }
    \cup
    { [BlankInclude EXCEPT !.registration = Some(<<"N1">>), !.group = Some(EMS_ROTOR),
                           !.callsign = t] :
        t \in {Undefined, Some(<<"RESCUE", " ", PLACEHOLDER>>)} }
    \cup
    { [BlankInclude EXCEPT !.ICAO_hex = Some(<<"a1">>), !.comments = c, !.agency = a] :
        c \in {Some(<<"c1">>), Some(<<"c1", "\n", "Squawk", ":", " ", "7700">>)},
        a \in {Undefined, Some(<<"AG1">>)} }

RecordEnvs ==
    [ ADSBX_Filtering : BOOLEAN, ADSBX_Use_Icon : BOOLEAN,
      ADSBX_Includes : {<<>>} \cup {<<e>> : e \in RecordIncludes},
      ADSBX_Includes_URL : {<<>>} ]

InitRecord ==
    /\ pc = "fetch"
    /\ env \in RecordEnvs
    /\ ControlIdle
    /\ remarks = <<>>
    /\ updates = <<>>
    /\ trace = <<>>

(* lines 466-493: the fetch answers OK with an 'ac' array of one record *)
FetchRecord ==
    /\ pc = "fetch"
    /\ \E ac \in RecordPool : body' = <<ac>>
    /\ fetched' = "ok"
    /\ pc' = "csv"
    /\ UNCHANGED << remarkVars, downloadVars, env, csv, allIncludes, hexMap, includesMap, nextAc, firstPass, ids,
                    assembled, processedIds, features, submitted >>

NextRecord ==
    \/ FetchRecord
    \/ CsvNone
    \/ BuildIndex
    \/ AssembleOne
    \/ AssembleDone
    \/ HexWalk
    \/ RegWalk
    \/ PassThrough
    \/ Submit

SpecRecord == InitRecord /\ [][NextRecord]_vars

----------------------------------------------------------------------------
(* The CSV download of Task.control step by step, with the Google Drive     *)
(* helper.  A URL is a text whose tokens are the pieces the code looks for   *)
(* ("drive.google.com", "id=", "&", "/file/d/", "/d/", "/",                  *)
(* "export=download") and words.                                             *)

(* url.split(sep)[1].split(end)[0], for a url that includes sep *)
PieceAfter(url, sep, end) == Split(Split(url, sep)[2], end)[1]

(* gdrive-helper.ts, extractGoogleDriveFileId: '' when no id is found *)
extractGoogleDriveFileId(url) ==
    IF ~Includes(url, "drive.google.com") THEN <<>>
    ELSE IF Includes(url, "id=") THEN PieceAfter(url, "id=", "&")
    ELSE IF Includes(url, "/file/d/") THEN PieceAfter(url, "/file/d/", "/")
    ELSE IF Includes(url, "/d/") THEN PieceAfter(url, "/d/", "/")
    ELSE <<>>

StandardExportUrl(fileId) ==
    <<"https://", "drive.google.com", "/", "uc?", "export=download", "&", "id=">> \o fileId

(* downloadMethods of a helper that tries the Sheets export first *)
downloadMethodsSheetsFirst(fileId) ==
    << [ url |-> <<"https://", "docs.google.com", "/spreadsheets", "/d/">> \o fileId
                    \o <<"/", "export?format=csv">>,
         description |-> "Google Sheets export" ],
       [ url |-> StandardExportUrl(fileId),
         description |-> "Standard export download" ],
       [ url |-> <<"https://", "drive.google.com", "/", "uc?", "id=">> \o fileId
                    \o <<"&", "export=download">>,
         description |-> "Alternative export format" ] >>

(* gdrive-helper.ts, downloadMethods *)
downloadMethods(fileId) ==
    << [ url |-> StandardExportUrl(fileId),
         description |-> "Standard export download" ],
       [ url |-> <<"https://", "docs.google.com", "/spreadsheets", "/d/">> \o fileId
                    \o <<"/", "export?format=csv">>,
         description |-> "Google Sheets export" ],
       [ url |-> <<"https://", "drive.google.com", "/", "uc?", "id=">> \o fileId
                    \o <<"&", "export=download">>,
         description |-> "Alternative export format" ] >>

(* lines 523-556: whether the URL is a Google Drive URL, and the URL of the standard fetch *)
IsGoogleDrive(url) == Includes(url, "drive.google.com")

CsvUrl(url) ==
    IF IsGoogleDrive(url) /\ ~Includes(url, "export=download")
    THEN LET fileId == IF Includes(url, "id=") THEN PieceAfter(url, "id=", "&")
                       ELSE IF Includes(url, "/file/d/") THEN PieceAfter(url, "/file/d/", "/")
                       ELSE IF Includes(url, "/d/") THEN PieceAfter(url, "/d/", "/")
                       ELSE <<>>
         IN  IF fileId # <<>> THEN StandardExportUrl(fileId) ELSE url
    ELSE url

(* URLs the operator may have configured. *)
DownloadUrls ==
    { <<"https://", "example.org", "/", "includes.csv">>,
      <<"https://", "drive.google.com", "/file/d/", "FILE1", "/", "view?usp=sharing">>,
      <<"https://", "drive.google.com", "/", "uc?", "id=", "FILE1">>,
      <<"https://", "drive.google.com", "/", "uc?", "export=download", "&", "id=", "FILE1">>,
      <<"https://", "drive.google.com", "/d/", "FILE1", "/">>,
      <<"https://", "drive.google.com", "/drive/folders/", "FOLDER1">>,
      <<"https://", "drive.google.com", "/", "uc?", "id=">> }

(* Header lines and data lines of the CSV texts a server may answer with. *)
CsvHeaders ==
    { <<"domain", ",", "agency", ",", "icao", "_", "hex", ",", "registration", ",",
        "callsign", ",", "group", ",", "type", ",", "comment">>,
      <<"Domain", ",", " ", "ICAO", "_", "HEX", " ", ",", "Registration", ",", "Group">>,
      <<"registration", ",", "cot", "_", "type", ",", "comments", ",", "Agency">>,
      <<"registration", ",", "TYPE", ",", "Comment">>,
      <<"registration">> }

CsvLines ==
    { <<"FIRE", ",", "AG1", ",", "a1", ",", "N1", ",", "CS1", ",", "FIRE", "_", "SEAT", ",",
        "a", "-", "f", "-", "A", "-", "M", "-", "H", ",", "c1">>,
      <<"EMS", ",", ",", "a1", ",", ",", ",", ",", ",">>,
      <<",", " ", ",", ",", "N1">>,
      <<" ", "N2", ",", " ", "x", " ", ",", "c2", ",", "AG2", ",", "more">>,
      <<"N1">>,
      <<",", ",", ",">>,
      <<" ">>,
      <<>> }

CsvTexts ==
    { h \o <<"\n">> \o l1 \o <<"\n">> \o l2 :
        h \in CsvHeaders, l1 \in CsvLines, l2 \in {<<"N2">>, <<>>, <<",", "N2", " ">>} }

(* The texts of an OK response: a CSV text, or nothing but white space. *)
DownloadTexts == CsvTexts \cup { <<>>, <<" ", "\n">> }

(* The ways a fetch can fail to deliver a text: it throws, or the response is not OK. *)
FetchFailures == {"throws", "status"}

InitDownload ==
    /\ pc = "download"
    /\ \E url \in DownloadUrls :
          env = [ADSBX_Filtering |-> FALSE, ADSBX_Use_Icon |-> FALSE,
                 ADSBX_Includes |-> <<>>, ADSBX_Includes_URL |-> url]
    /\ fetched = "ok"
    /\ body = <<>>
    /\ csv = "pending"
    /\ allIncludes = <<>>
    /\ hexMap = <<>>
    /\ includesMap = <<>>
    /\ nextAc = 1
    /\ firstPass = <<>>
    /\ ids = <<>>
    /\ assembled = <<>>
    /\ processedIds = {}
    /\ features = <<>>
    /\ submitted = <<>>
    /\ attempts = <<>>
    /\ raised = Undefined
    /\ csvData = Undefined
    /\ remarks = <<>>
    /\ updates = <<>>
    /\ trace = <<>>

(* part_000 lines 563-567 with gdrive-helper.ts lines 58-61: the helper finds no file
   id and throws before any fetch *)
HelperNoFileId ==
    /\ pc = "download"
    /\ IsGoogleDrive(env.ADSBX_Includes_URL)
    /\ extractGoogleDriveFileId(env.ADSBX_Includes_URL) = <<>>
    /\ raised' = Some("Could not extract file ID from Google Drive URL")
    /\ pc' = "fallback"
    /\ UNCHANGED << remarkVars, env, fetched, body, csv, allIncludes, hexMap, includesMap, nextAc,
                    firstPass, ids, assembled, processedIds, features, submitted, attempts,
                    csvData >>

(* gdrive-helper.ts lines 86-119: one turn of the loop over the download methods; the
   response is a failure, an OK response with blank text, or an OK response with text *)
HelperMethod ==
    /\ pc = "download"
    /\ IsGoogleDrive(env.ADSBX_Includes_URL)
    /\ extractGoogleDriveFileId(env.ADSBX_Includes_URL) # <<>>
    /\ LET method == downloadMethods(extractGoogleDriveFileId(env.ADSBX_Includes_URL))
                        [Len(attempts) + 1]
           last == Len(attempts) = 2
       IN  \/ \E how \in FetchFailures :
                 /\ attempts' = Append(attempts, [by |-> method.description,
                                                  url |-> method.url, outcome |-> how])
                 /\ raised' = IF last THEN Some(how) ELSE raised
                 /\ pc' = IF last THEN "fallback" ELSE pc
                 /\ csvData' = csvData
           \/ \E data \in DownloadTexts :
                 IF Trim(data) # <<>>
                 THEN /\ attempts' = Append(attempts, [by |-> method.description,
                                                       url |-> method.url, outcome |-> "text"])
                      /\ csvData' = Some(data)
                      /\ pc' = "received"
                      /\ raised' = raised
                 ELSE /\ attempts' = Append(attempts, [by |-> method.description,
                                                       url |-> method.url, outcome |-> "empty"])
                      /\ raised' = IF last THEN Some("empty") ELSE raised
                      /\ pc' = IF last THEN "fallback" ELSE pc
                      /\ csvData' = csvData
    /\ UNCHANGED << remarkVars, env, fetched, body, csv, allIncludes, hexMap, includesMap, nextAc,
                    firstPass, ids, assembled, processedIds, features, submitted >>

(* One standard fetch of csvUrl, lines 570-585 and 589-601: it throws or answers not OK,
   which the catch of lines 626-630 handles, or it answers OK with a text *)
StandardFetchAs(by) ==
    \/ \E how \in FetchFailures :
          /\ attempts' = Append(attempts, [by |-> by, url |-> CsvUrl(env.ADSBX_Includes_URL),
                                           outcome |-> how])
          /\ csv' = "failed"
          /\ allIncludes' = env.ADSBX_Includes
          /\ pc' = "index"
          /\ csvData' = csvData
    \/ \E data \in DownloadTexts :
          /\ attempts' = Append(attempts, [by |-> by, url |-> CsvUrl(env.ADSBX_Includes_URL),
                                           outcome |-> "text"])
          /\ csvData' = Some(data)
          /\ pc' = "received"
          /\ UNCHANGED << csv, allIncludes >>

(* lines 568-586: the helper threw, the task falls back to one standard fetch *)
FallbackFetch ==
    /\ pc = "fallback"
    /\ StandardFetchAs("Fallback standard fetch")
    /\ UNCHANGED << remarkVars, env, fetched, body, hexMap, includesMap, nextAc, firstPass, ids,
                    assembled, processedIds, features, submitted, raised >>

(* lines 587-602: any other URL is fetched once *)
StandardFetch ==
    /\ pc = "download"
    /\ ~IsGoogleDrive(env.ADSBX_Includes_URL)
    /\ StandardFetchAs("Standard fetch")
    /\ UNCHANGED << remarkVars, env, fetched, body, hexMap, includesMap, nextAc, firstPass, ids,
                    assembled, processedIds, features, submitted, raised >>

(* lines 603-630: a blank text is a failure the catch handles, any other text is parsed
   and appended to the configured entries *)
Received ==
    /\ pc = "received"
    /\ IF Trim(Val(csvData)) = <<>>
       THEN csv' = "empty" /\ allIncludes' = env.ADSBX_Includes
       ELSE csv' = "merged" /\ allIncludes' = env.ADSBX_Includes \o parseCSV(Val(csvData))
    /\ pc' = "index"
    /\ UNCHANGED << remarkVars, downloadVars, env, fetched, body, hexMap, includesMap, nextAc,
                    firstPass, ids, assembled, processedIds, features, submitted >>

NextDownload ==
    \/ HelperNoFileId
    \/ HelperMethod
    \/ FallbackFetch
    \/ StandardFetch
    \/ Received

SpecDownload == InitDownload /\ [][NextDownload]_vars

----------------------------------------------------------------------------
(* Properties *)

Failed == fetched \in {"transport", "status", "format"}

(* The run is over, the fetch had answered, and the policy was filter mode. *)
FilterDone == pc = "done" /\ fetched = "ok" /\ env.ADSBX_Filtering

(* The run is over, the fetch had answered, and the policy was pass-through. *)
PassThroughDone == pc = "done" /\ fetched = "ok" /\ ~env.ADSBX_Filtering

HexKeyOf(ac) == NormKey(Val(ac.hex))

RegKeyOf(ac) == NormKey(Val(ac.r))

InHexIndex(ac) == Truthy(ac.hex) /\ MapHas(hexMap, HexKeyOf(ac))

InRegistrationIndex(ac) == Truthy(ac.r) /\ MapHas(includesMap, RegKeyOf(ac))

(* lookup(hex, registration): the hex match, else the registration match, else none *)
Lookup(ac) ==
    IF InHexIndex(ac) THEN MapGet(hexMap, HexKeyOf(ac))
    ELSE IF InRegistrationIndex(ac) THEN MapGet(includesMap, RegKeyOf(ac))
    ELSE Undefined

(* C1: in the first pass, every record that is not skipped is overlaid with the entry
   the lookup contract names: the hex-index entry of its hex, else the
   registration-index entry of its registration, else none. *)
C1_FirstPassLookup ==
    \A i \in 1..Len(firstPass) :
        ~firstPass[i].skipped => firstPass[i].include = Lookup(body[i])

(* C2: in filter mode every feature of a submitted collection has its hex in the hex
   index or its registration in the registration index. *)
C2_FilterEmitsOnlyMatched ==
    (fetched = "ok" /\ env.ADSBX_Filtering) =>
        /\ \A i \in 1..Len(features) :
              LET ac == Val(MapGet(ids, features[i])).metadata
              IN  InHexIndex(ac) \/ InRegistrationIndex(ac)
        /\ \A c \in 1..Len(submitted) : \A i \in 1..Len(submitted[c]) :
              InHexIndex(submitted[c][i].metadata) \/ InRegistrationIndex(submitted[c][i].metadata)

(* C2 witness: a filter-mode run that emitted a feature and dropped one that matches
   no key of either index. *)
C2_Witness ==
    /\ FilterDone
    /\ Len(submitted) = 1
    /\ Len(submitted[1]) >= 1
    /\ \E j \in 1..Len(assembled) :
          /\ ~InHexIndex(assembled[j][2].metadata)
          /\ ~InRegistrationIndex(assembled[j][2].metadata)
          /\ \A i \in 1..Len(submitted[1]) : submitted[1][i].id # assembled[j][1]

(* C3: in filter mode every assembled feature whose record matches a key of the
   include index, by hex or by registration, is in the submitted collection. *)
C3_AllMatchedEmitted ==
    FilterDone =>
        \A j \in 1..Len(assembled) :
            LET ac == assembled[j][2].metadata
            IN  (InHexIndex(ac) \/ InRegistrationIndex(ac)) =>
                    \E i \in 1..Len(submitted[1]) : submitted[1][i].id = assembled[j][1]

(* C4: in filter mode no feature is pushed twice over the two walks, so no id appears
   twice in the output array or in a submitted collection. *)
C4_ProcessedAtMostOnce ==
    /\ \A i, j \in 1..Len(features) : i # j => features[i] # features[j]
    /\ \A c \in 1..Len(submitted) : \A i, j \in 1..Len(submitted[c]) :
          i # j => submitted[c][i].id # submitted[c][j].id
    /\ processedIds = {features[i] : i \in 1..Len(features)} \/ ~env.ADSBX_Filtering

(* C4 witness: an emitted aircraft that matches one entry by hex and another entry by
   registration. *)
C4_Witness ==
    /\ FilterDone
    /\ \E i \in 1..Len(submitted[1]) :
          LET ac == submitted[1][i].metadata
          IN  /\ InHexIndex(ac)
              /\ InRegistrationIndex(ac)
              /\ MapGet(hexMap, HexKeyOf(ac)) # MapGet(includesMap, RegKeyOf(ac))

(* The ids of the records of the response that are not skipped. *)
LiveIds == {HexKeyOf(body[i]) : i \in {j \in 1..Len(body) : ~Skipped(body[j])}}

(* C5: in pass-through mode the submitted collection is exactly the assembled features,
   one per distinct hex of the records not skipped, each as it was when assembly ended. *)
C5_PassThroughUnchanged ==
    PassThroughDone =>
        /\ submitted = <<MapValues(assembled)>>
        /\ ids = assembled
        /\ {submitted[1][i].id : i \in 1..Len(submitted[1])} = LiveIds
        /\ Len(submitted[1]) = Cardinality(LiveIds)

(* C5 witness: a pass-through run of two features, one enriched and with an icon,
   one that matched nothing. *)
C5_Witness ==
    /\ PassThroughDone
    /\ Len(submitted[1]) = 2
    /\ \E i, j \in 1..2 :
          /\ IsDef(submitted[1][i].icon)
          /\ ~IsDef(submitted[1][j].metadata.group)

(* C6: updateRemarks is idempotent: applying the same update map a second time leaves
   the text as the first application made it. *)
C6_Idempotent == Len(trace) >= 3 => trace[3] = trace[2]

(* A line of the text carries the label. *)
HasLine(text, label) ==
    \E i \in 1..Len(Split(text, "\n")) :
        HasLabel(Split(text, "\n")[i]) /\ LineKey(Split(text, "\n")[i]) = label

(* C7: updateRemarks(s, {K: null}) has no line for K, and is s itself when s had none. *)
C7_NullRemoves ==
    (Len(trace) >= 2 /\ Len(updates) = 1 /\ updates[1][2] = Undefined) =>
        /\ ~HasLine(trace[2], updates[1][1])
        /\ ~HasLine(trace[1], updates[1][1]) => trace[2] = trace[1]

(* The positions of the merged sequence that carry the key, by hex and by registration. *)
HexCarriers(k) ==
    {i \in 1..Len(allIncludes) :
        Truthy(allIncludes[i].ICAO_hex) /\ NormKey(Val(allIncludes[i].ICAO_hex)) = k}

RegistrationCarriers(k) ==
    {i \in 1..Len(allIncludes) :
        Truthy(allIncludes[i].registration) /\ NormKey(Val(allIncludes[i].registration)) = k}

Last(S) == CHOOSE i \in S : \A j \in S : j <= i

Indexed == pc \in {"assemble", "policy", "regwalk", "submit", "done"} /\ fetched = "ok"

(* C8: the merged sequence is the configured entries followed by the CSV entries, and
   each index maps every key to the last entry of the sequence that carries it. *)
C8_LastWriteWins ==
    Indexed =>
        /\ SubSeq(allIncludes, 1, Len(env.ADSBX_Includes)) = env.ADSBX_Includes
        /\ KeySet(hexMap) = {NormKey(Val(allIncludes[i].ICAO_hex)) :
                                i \in {j \in 1..Len(allIncludes) : Truthy(allIncludes[j].ICAO_hex)}}
        /\ KeySet(includesMap) = {NormKey(Val(allIncludes[i].registration)) :
                                i \in {j \in 1..Len(allIncludes) : Truthy(allIncludes[j].registration)}}
        /\ \A k \in KeySet(hexMap) : MapGet(hexMap, k) = Some(allIncludes[Last(HexCarriers(k))])
        /\ \A k \in KeySet(includesMap) :
              MapGet(includesMap, k) = Some(allIncludes[Last(RegistrationCarriers(k))])

(* C8 witness: a CSV entry has overridden a configured entry with the same hex key. *)
C8_Witness ==
    /\ Indexed
    /\ csv = "merged"
    /\ \E k \in KeySet(hexMap) : \E i, j \in HexCarriers(k) :
          /\ i <= Len(env.ADSBX_Includes)
          /\ j > Len(env.ADSBX_Includes)
          /\ allIncludes[i] # allIncludes[j]
          /\ MapGet(hexMap, k) = Some(allIncludes[j])

(* What the provider sent of a record: the fields no overlay writes. *)
ProviderFields(ac) ==
    [ hex |-> ac.hex, flight |-> ac.flight, r |-> ac.r, t |-> ac.t,
      category |-> ac.category, squawk |-> ac.squawk, emergency |-> ac.emergency,
      alt_baro |-> ac.alt_baro, alt_geom |-> ac.alt_geom, dbFlags |-> ac.dbFlags,
      gs |-> ac.gs ]

(* The positions of the response whose record has the id. *)
RecordsOf(id) == {i \in 1..Len(body) : ~Skipped(body[i]) /\ HexKeyOf(body[i]) = id}

Assembled == pc \in {"policy", "regwalk", "submit", "done"} /\ fetched = "ok"

(* C9: after assembly there is one feature per id, and it is the feature of the last
   record of the response with that id. *)
C9_OneFeaturePerHex ==
    Assembled =>
        /\ \A i, j \in 1..Len(assembled) : i # j => assembled[i][1] # assembled[j][1]
        /\ KeySet(assembled) = LiveIds
        /\ \A i \in 1..Len(assembled) :
              /\ assembled[i][2].id = assembled[i][1]
              /\ ProviderFields(assembled[i][2].metadata)
                    = ProviderFields(body[Last(RecordsOf(assembled[i][1]))])

(* C9 witness: two records with the same id and different content left one feature. *)
C9_Witness ==
    /\ Assembled
    /\ Len(assembled) = 1
    /\ \E i, j \in RecordsOf(assembled[1][1]) :
          i < j /\ ProviderFields(body[i]) # ProviderFields(body[j])

(* C10: when the provider fetch fails the run submits one empty collection and returns,
   and no record is processed. *)
C10_FetchFailureEmpty ==
    Failed =>
        /\ pc = "done"
        /\ submitted = << <<>> >>
        /\ firstPass = <<>>
        /\ nextAc = 1
        /\ ids = <<>>
        /\ features = <<>>

(* C10 witness: a run whose fetch failed has returned. *)
C10_Witness == Failed /\ pc = "done" /\ submitted = << <<>> >>

(* The entries of the configuration. *)
ConfigEntries == {env.ADSBX_Includes[i] : i \in 1..Len(env.ADSBX_Includes)}

CsvFailure == csv \in {"failed", "empty"}

(* C11: when the CSV download fails or its text is empty the run is not cut short:
   the merged sequence is the configured entries alone, both indexes hold configured
   entries only, under every key of a configured entry, and the run returns only
   after every record of the response was processed and one collection submitted. *)
C11_CsvFailureConfigOnly ==
    CsvFailure =>
        /\ fetched = "ok"
        /\ allIncludes = env.ADSBX_Includes
        /\ \A i \in 1..Len(hexMap) : hexMap[i][2] \in ConfigEntries
        /\ \A i \in 1..Len(includesMap) : includesMap[i][2] \in ConfigEntries
        /\ Indexed =>
              \A e \in ConfigEntries :
                  /\ Truthy(e.ICAO_hex) => MapHas(hexMap, NormKey(Val(e.ICAO_hex)))
                  /\ Truthy(e.registration) =>
                        MapHas(includesMap, NormKey(Val(e.registration)))
        /\ pc = "done" =>
              /\ Len(firstPass) = Len(body)
              /\ Len(submitted) = 1
              /\ submitted[1] = Collection(features, ids)

(* C11 witness: the download failed, and the run ended with a feature enriched from a
   configured entry. *)
C11_Witness ==
    /\ csv = "failed"
    /\ pc = "done"
    /\ hexMap # <<>>
    /\ Len(submitted) = 1
    /\ \E i \in 1..Len(submitted[1]) : IsDef(submitted[1][i].metadata.group)

(* C12: a run submits exactly one collection, and has done so when it returns, on the
   success path and on the provider-failure path: never two, and never before the
   whole output array is built. *)
C12_ExactlyOneSubmission ==
    /\ Len(submitted) <= 1
    /\ Len(submitted) = 1 <=> pc = "done"
    /\ (Len(submitted) = 1 /\ fetched = "ok") =>
          /\ nextAc > Len(body)
          /\ submitted[1] = Collection(features, ids)
          /\ env.ADSBX_Filtering => {features[i] : i \in 1..Len(features)} = processedIds
          /\ ~env.ADSBX_Filtering => features = MapKeys(ids)
    /\ (Len(submitted) = 1 /\ Failed) => submitted[1] = <<>>

(* C12 witness: a run on the success path has submitted a collection of two features. *)
C12_Witness ==
    /\ pc = "done"
    /\ fetched = "ok"
    /\ Len(submitted) = 1
    /\ Len(submitted[1]) = 2

(* The text has the line 'Group: g', with the underscores of g replaced by hyphens. *)
HasGroupLine(text, g) ==
    \E i \in 1..Len(Split(text, "\n")) :
        Split(text, "\n")[i] = <<"Group", ":", " ">> \o ReplaceUnderscores(g)

(* The icon path of a group: the fixed base path, the group, '.png'. *)
IconPath(g) == PUBLIC_SAFETY_AIR_ICON_PATH \o g \o <<".png">>

(* C13: with filter mode and icon-by-group enabled, every emitted feature whose matched
   entry (by hex, else by registration) has a group of the valid-icon-group set carries
   the remarks line 'Group: <group, hyphenated>' and the icon path of that group. *)
C13_GroupLineAndIcon ==
    (fetched = "ok" /\ env.ADSBX_Filtering /\ env.ADSBX_Use_Icon) =>
        \A c \in 1..Len(submitted) : \A i \in 1..Len(submitted[c]) :
            LET feat == submitted[c][i]
                entry == Lookup(feat.metadata)
            IN  (IsDef(entry) /\ IsDef(Val(entry).group)
                    /\ Val(Val(entry).group) \in VALID_ICON_GROUPS) =>
                    /\ HasGroupLine(feat.remarks, Val(Val(entry).group))
                    /\ feat.icon = Some(IconPath(Val(Val(entry).group)))

(* C14: every feature emitted in filter mode is the feature pass-through mode emits for
   the same id, for the same response and include list: the feature as the assembly
   loop left it (remarks, record metadata, type, icon and callsign alike). *)
C14_FilterEqualsPassThrough ==
    FilterDone =>
        \A i \in 1..Len(submitted[1]) :
            /\ MapHas(assembled, submitted[1][i].id)
            /\ submitted[1][i] = Val(MapGet(assembled, submitted[1][i].id))

(* The positions of the placeholder token in a template. *)
TokenPositions(template) == {k \in 1..Len(template) : template[k] = PLACEHOLDER}

(* The live flight callsign of a record: trimmed, the empty text when absent. *)
LiveCallsign(ac) == IF Truthy(ac.flight) THEN Trim(Val(ac.flight)) ELSE <<>>

(* The callsign the overlay rule gives: the template with its token replaced by the
   live callsign, or the template itself when it holds no token. *)
ExpectedCallsign(template, ac) ==
    IF TokenPositions(template) = {} THEN template
    ELSE LET k == CHOOSE k \in TokenPositions(template) : TRUE
         IN  SubSeq(template, 1, k - 1) \o LiveCallsign(ac) \o SubSeq(template, k + 1, Len(template))

(* C15: when the entry overlaid on a record defines a callsign template (holding the
   token at most once), the record's callsign is the template with the token replaced
   by the provider's trimmed flight callsign, empty when the flight is absent, or the
   template verbatim when it holds no token: after the first pass, and after the walks
   of filter mode. *)
C15_CallsignOverlay ==
    /\ Assembled =>
          \A i \in 1..Len(firstPass) :
              LET entry == firstPass[i].include
              IN  (/\ ~firstPass[i].skipped
                   /\ IsDef(entry)
                   /\ IsDef(Val(entry).callsign)
                   /\ Cardinality(TokenPositions(Val(Val(entry).callsign))) <= 1
                   /\ i = Last(RecordsOf(HexKeyOf(body[i])))) =>
                      Val(MapGet(assembled, HexKeyOf(body[i]))).metadata.callsign
                          = Some(ExpectedCallsign(Val(Val(entry).callsign), body[i]))
    /\ FilterDone =>
          \A i \in 1..Len(submitted[1]) :
              LET ac == submitted[1][i].metadata
                  entry == Lookup(ac)
              IN  (/\ IsDef(entry)
                   /\ IsDef(Val(entry).callsign)
                   /\ Cardinality(TokenPositions(Val(Val(entry).callsign))) <= 1) =>
                      ac.callsign = Some(ExpectedCallsign(Val(Val(entry).callsign), ac))

(* C15 witness: a template with the token, overlaid in the first pass and again in the
   hex walk on a record whose flight callsign had to be trimmed. *)
C15_Witness ==
    /\ FilterDone
    /\ Len(submitted[1]) = 1
    /\ IsDef(firstPass[1].include)
    /\ Val(firstPass[1].include).callsign = Some(<<"RESCUE", " ", PLACEHOLDER>>)
    /\ body[1].flight = Some(<<"FLT1", " ">>)
    /\ submitted[1][1].metadata.callsign = Some(<<"RESCUE", " ", "FLT1">>)

(* An altitude of the provider is present and numeric after parsing. *)
IsNumeric(a) == IsDef(a) /\ IsDef(AltitudeNumber(Val(a)))

(* The altitude rule: the geometric altitude when numeric, else the barometric one
   when numeric, else not-a-number; in ten-thousandths of a metre. *)
ExpectedAltitude(ac) ==
    IF IsNumeric(ac.alt_geom) THEN Some(Val(AltitudeNumber(Val(ac.alt_geom))) * 3048)
    ELSE IF IsNumeric(ac.alt_baro) THEN Some(Val(AltitudeNumber(Val(ac.alt_baro))) * 3048)
    ELSE Undefined

(* C16: the altitude of a feature is the geometric altitude in feet times 0.3048 when
   that is present and numeric after parsing, else the barometric altitude when that is
   present and numeric, and not-a-number only when neither is. *)
C16_AltitudeResolution ==
    Assembled =>
        \A i \in 1..Len(assembled) :
            assembled[i][2].altitude = ExpectedAltitude(assembled[i][2].metadata)

(* The record has a hex that is not empty after trimming. *)
HexPresent(ac) == IsDef(ac.hex) /\ Trim(Val(ac.hex)) # <<>>

(* The lowercased, trimmed hex of a record. *)
HexId(ac) == Trim(ToLowerCase(Val(ac.hex)))

(* C17: a record whose hex is absent, empty or empty after trimming yields no feature
   and is in no submitted collection, in either mode; every other record yields a
   feature whose id is its lowercased, trimmed hex. *)
C17_HexGuard ==
    /\ Assembled =>
          /\ KeySet(assembled)
                = {HexId(body[i]) : i \in {j \in 1..Len(body) : HexPresent(body[j])}}
          /\ \A i \in 1..Len(assembled) :
                /\ HexPresent(assembled[i][2].metadata)
                /\ assembled[i][2].id = HexId(assembled[i][2].metadata)
                /\ assembled[i][1] = assembled[i][2].id
    /\ \A c \in 1..Len(submitted) : \A i \in 1..Len(submitted[c]) :
          /\ HexPresent(submitted[c][i].metadata)
          /\ submitted[c][i].id = HexId(submitted[c][i].metadata)
    /\ PassThroughDone =>
          {submitted[1][i].id : i \in 1..Len(submitted[1])}
              = {HexId(body[i]) : i \in {j \in 1..Len(body) : HexPresent(body[j])}}

(* C17 witness: of two records, one with a blank hex and one with a padded upper-case
   or lower-case hex, the run emitted the second alone. *)
C17_Witness ==
    /\ pc = "done"
    /\ fetched = "ok"
    /\ Len(body) = 2
    /\ \E i, j \in 1..2 : ~HexPresent(body[i]) /\ HexPresent(body[j])
    /\ Len(submitted[1]) = 1
    /\ submitted[1][1].id = <<"a1">>

(* The features the assembly loop left, and in pass-through mode the features emitted. *)
AssembledFeatures ==
    {assembled[i][2] : i \in 1..Len(assembled)}
    \cup (IF PassThroughDone THEN {submitted[1][i] : i \in 1..Len(submitted[1])} ELSE {})

(* C18: an assembled feature has an icon path exactly when the group of its record is
   set, is not 'UNKNOWN' or 'None', icon-by-group is enabled and the group is in the
   valid-icon-group set, and the path is then base path + group + '.png'; a custom
   symbology override has no part in it. *)
C18_IconByGroup ==
    Assembled =>
        \A feat \in AssembledFeatures :
            LET group == feat.metadata.group
                iconDue == /\ IsDef(group)
                           /\ Val(group) # <<>>
                           /\ Val(group) \notin {StrUNKNOWN, StrNone}
                           /\ env.ADSBX_Use_Icon
                           /\ Val(group) \in VALID_ICON_GROUPS
            IN  /\ IsDef(feat.icon) <=> iconDue
                /\ iconDue => feat.icon = Some(IconPath(Val(group)))

(* C18 witness: a feature with an icon and with a custom symbology override. *)
C18_Witness ==
    /\ Assembled
    /\ \E feat \in AssembledFeatures :
          /\ feat.icon = Some(IconPath(EMS_ROTOR))
          /\ feat.metadata.cot_type = Some(COT_MH)
          /\ feat.type = COT_MH

(* The emitter categories of fixed-wing aircraft. *)
FixedWing == {<<"A0">>, <<"A1">>, <<"A2">>, <<"A3">>, <<"A4">>, <<"A5">>, <<"A6">>}

(* The default symbology: 'a-f-A', then the civ/mil suffix, then the classification. *)
DefaultType(ac) ==
    <<"a", "-", "f", "-", "A", "-">>
    \o (IF IsDef(ac.dbFlags) /\ Val(ac.dbFlags) % 2 = 1 THEN <<"M">> ELSE <<"C">>)
    \o (IF ~IsDef(ac.category) THEN <<>>
        ELSE IF Val(ac.category) \in FixedWing THEN <<"-", "F">>
        ELSE IF Val(ac.category) = <<"A7">> THEN <<"-", "H">>
        ELSE IF Val(ac.category) = <<"B2">> THEN <<"-", "L">>
        ELSE <<>>)

(* The record has a custom symbology override that is not 'None' or 'UNKNOWN'. *)
HasOverride(ac) ==
    /\ IsDef(ac.cot_type)
    /\ Val(ac.cot_type) # <<>>
    /\ Trim(Val(ac.cot_type)) \notin {StrNone, StrUNKNOWN}

(* Every feature of the run: assembled or submitted. *)
AllFeatures ==
    {assembled[i][2] : i \in 1..Len(assembled)}
    \cup UNION {{submitted[c][i] : i \in 1..Len(submitted[c])} : c \in 1..Len(submitted)}

(* C19: the type of a feature is the trimmed custom override of its record when there
   is one that is not 'None' or 'UNKNOWN', and else the default 'a-f-A' + civ/mil
   suffix + classification suffix, in that order. *)
C19_SymbologyType ==
    \A feat \in AllFeatures :
        feat.type = IF HasOverride(feat.metadata)
                    THEN Trim(Val(feat.metadata.cot_type))
                    ELSE DefaultType(feat.metadata)

(* C19 witness: an override with surrounding blanks replaced the default of a record,
   and the feature was emitted. *)
C19_Witness ==
    /\ pc = "done"
    /\ \E feat \in AllFeatures :
          /\ feat.metadata.cot_type = Some(<<" ">> \o COT_MH \o <<" ">>)
          /\ feat.type = COT_MH
          /\ \E i \in 1..Len(submitted[1]) : submitted[1][i] = feat

(* C20: the civ/mil suffix of the default symbology is '-M' exactly when dbFlags is
   present and odd, and '-C' when it is absent or even. *)
C20_CivMilSuffix ==
    \A feat \in AllFeatures :
        ~HasOverride(feat.metadata) =>
            LET dbFlags == feat.metadata.dbFlags
                odd == IsDef(dbFlags) /\ \E k \in 0..Val(dbFlags) : Val(dbFlags) = 2 * k + 1
            IN  /\ Len(feat.type) >= 7
                /\ SubSeq(feat.type, 6, 7) = (IF odd THEN <<"-", "M">> ELSE <<"-", "C">>)

(* C20 witness: a record with dbFlags 3 (bits 0 and 1) became a military rotorcraft. *)
C20_Witness ==
    /\ Assembled
    /\ \E feat \in AllFeatures :
          /\ feat.metadata.dbFlags = Some(3)
          /\ feat.metadata.category = Some(<<"A7">>)
          /\ feat.type = <<"a", "-", "f", "-", "A", "-", "M", "-", "H">>

(* The classification suffix the rule gives a category. *)
ExpectedClassification(category) ==
    CASE category \in {Some(<<"A0">>), Some(<<"A1">>), Some(<<"A2">>), Some(<<"A3">>),
                       Some(<<"A4">>), Some(<<"A5">>), Some(<<"A6">>)} -> <<"-", "F">>
      [] category = Some(<<"A7">>) -> <<"-", "H">>
      [] category = Some(<<"B2">>) -> <<"-", "L">>
      [] OTHER -> <<>>

(* C21: the classification suffix of the default symbology is '-F' for the categories
   A0 to A6, '-H' for A7, '-L' for B2, and empty for any other or absent category. *)
C21_ClassificationSuffix ==
    \A feat \in AllFeatures :
        ~HasOverride(feat.metadata) =>
            /\ Len(feat.type) >= 7
            /\ SubSeq(feat.type, 8, Len(feat.type))
                  = ExpectedClassification(feat.metadata.category)

(* C21 witness: the feature of a civilian rotorcraft has been emitted. *)
C21_Witness ==
    /\ pc = "done"
    /\ Len(submitted) = 1
    /\ \E i \in 1..Len(submitted[1]) :
          /\ submitted[1][i].metadata.category = Some(<<"A7">>)
          /\ ~IsDef(submitted[1][i].metadata.dbFlags)
          /\ submitted[1][i].type = <<"a", "-", "f", "-", "A", "-", "C", "-", "H">>

(* The six labels whose value comes straight from a provider field. *)
ProviderLabels(ac) ==
    << <<LblFlight, ac.flight>>, <<LblRegistration, ac.r>>, <<LblType, ac.t>>,
       <<LblCategory, ac.category>>, <<LblEmergency, ac.emergency>>, <<LblSquawk, ac.squawk>> >>

(* The text has exactly this line. *)
HasExactLine(text, line) ==
    \E i \in 1..Len(Split(text, "\n")) : Split(text, "\n")[i] = line

(* C22: the Remarks Builder emits a line for a label only when the record has a value
   for it: a record without flight, registration, type, category, emergency or squawk
   has no line for that label. *)
C22_OnlyPresentLabels ==
    Assembled =>
        \A i \in 1..Len(assembled) : \A k \in 1..6 :
            LET entry == ProviderLabels(assembled[i][2].metadata)[k]
            IN  ~Truthy(entry[2]) => ~HasLine(assembled[i][2].remarks, entry[1])

(* The value of a text, or 'Unknown' when it is absent or empty; trimmed. *)
ValueOrUnknown(o) == Trim(IF IsDef(o) /\ Val(o) # <<>> THEN Val(o) ELSE <<"Unknown">>)

(* The entries of the remarks of a record, in the order of the label table: the six
   provider labels always, the others when the record has a value for them. *)
ExpectedEntries(ac) ==
    LET always(label, o) == << label \o <<":", " ">> \o ValueOrUnknown(o) >>
        whenSet(label, o) ==
            IF IsDef(o) /\ Val(o) # <<>> THEN << label \o <<":", " ">> \o Trim(Val(o)) >> ELSE <<>>
        altitude(label, o) ==
            IF ~IsDef(o) THEN <<>>
            ELSE IF Val(o).num THEN << label \o <<":", " ", ToString(Val(o).n), " ", "ft">> >>
            ELSE << label \o <<":", " ">> \o Val(o).s >>
        group(o) ==
            IF IsDef(o) /\ Val(o) # <<>> /\ Trim(Val(o)) \notin {StrNone, StrUNKNOWN}
            THEN << <<"Group", ":", " ">> \o Trim(ReplaceUnderscores(Val(o))) >> ELSE <<>>
    IN  always(<<"Flight">>, ac.flight) \o whenSet(<<"Callsign">>, ac.callsign)
        \o always(<<"Registration">>, ac.r) \o whenSet(<<"Agency">>, ac.agency)
        \o always(<<"Type">>, ac.t) \o always(<<"Category">>, ac.category)
        \o altitude(<<"Alt", " ", "Baro">>, ac.alt_baro)
        \o altitude(<<"Alt", " ", "Geom">>, ac.alt_geom)
        \o always(<<"Emergency">>, ac.emergency) \o always(<<"Squawk">>, ac.squawk)
        \o group(ac.group) \o whenSet(<<"Comments">>, ac.comments)

(* C22 as amended: the Remarks Builder always emits an entry for Flight, Registration,
   Type, Category, Emergency and Squawk, with the value 'Unknown' when the record has
   none, and an entry for Callsign, Agency, Alt Baro, Alt Geom, Group or Comments only
   when the record has a value for it (for Group: one that is not 'None' or
   'UNKNOWN'); the remarks text is these entries, one per line. *)
C22_UnknownForAbsent ==
    Assembled =>
        \A i \in 1..Len(assembled) :
            assembled[i][2].remarks = Join(ExpectedEntries(assembled[i][2].metadata), "\n")

(* C22 witness: a record without flight and squawk, with a barometric altitude, got the
   lines 'Flight: Unknown' and 'Squawk: Unknown', an altitude line and no Callsign line. *)
C22_Witness ==
    /\ Assembled
    /\ \E i \in 1..Len(assembled) :
          LET feat == assembled[i][2]
          IN  /\ ~IsDef(feat.metadata.flight)
              /\ ~IsDef(feat.metadata.squawk)
              /\ HasExactLine(feat.remarks, <<"Flight", ":", " ", "Unknown">>)
              /\ HasExactLine(feat.remarks, <<"Squawk", ":", " ", "Unknown">>)
              /\ HasExactLine(feat.remarks, <<"Alt", " ", "Baro", ":", " ", "2000", " ", "ft">>)
              /\ ~HasLine(feat.remarks, LblCallsign)

(* The labels of the labelled lines of a text, in the order of the lines. *)
LabelsOf(text) ==
    LET labelled == SelectSeq(Split(text, "\n"), HasLabel)
    IN  [i \in 1..Len(labelled) |-> LineKey(labelled[i])]

(* The position of a label in the canonical order, 0 for a label that is not in it. *)
CanonicalIndex(label) ==
    IF \E i \in 1..Len(orderedKeys) : orderedKeys[i] = label
    THEN CHOOSE i \in 1..Len(orderedKeys) : orderedKeys[i] = label
    ELSE 0

NonCanonical(label) == CanonicalIndex(label) = 0

(* A sequence without the later repetitions of its elements. *)
RECURSIVE FirstOccurrences(_)
FirstOccurrences(s) ==
    IF s = <<>> THEN <<>>
    ELSE LET front == FirstOccurrences(SubSeq(s, 1, Len(s) - 1))
         IN  IF \E i \in 1..Len(front) : front[i] = s[Len(s)]
             THEN front ELSE Append(front, s[Len(s)])

(* C23: in every remarks text that buildRemarks or updateRemarks produces, the canonical
   labels present appear in the canonical order, each at most once; in the output of
   updateRemarks every other label follows them, in the relative order these labels
   had in the text that was updated. *)
C23_CanonicalOrder ==
    \A n \in 1..Len(trace) :
        LET labels == LabelsOf(trace[n])
        IN  /\ \A i, j \in 1..Len(labels) :
                  (i < j /\ ~NonCanonical(labels[i]) /\ ~NonCanonical(labels[j])) =>
                      CanonicalIndex(labels[i]) < CanonicalIndex(labels[j])
            /\ n > 1 =>
                  /\ \A i, j \in 1..Len(labels) :
                        (i < j /\ NonCanonical(labels[i])) => NonCanonical(labels[j])
                  /\ SelectSeq(labels, NonCanonical)
                        = FirstOccurrences(SelectSeq(LabelsOf(trace[n - 1]), NonCanonical))

(* C24: the speed of a feature is the not-a-number sentinel, and not 0, when the
   record's ground speed is absent or is not a number; it is the ground speed times
   0.5144444 when the ground speed is a number. *)
C24_Speed ==
    \A feat \in AllFeatures :
        LET gs == feat.metadata.gs
        IN  IF IsDef(gs) /\ Val(gs).num
            THEN feat.speed = Some(Val(gs).n * 5144444)
            ELSE feat.speed = Undefined /\ feat.speed # Some(0)

(* C24 witness: a record with a ground speed of 100 knots was emitted with the speed
   51.44444 m/s. *)
C24_Witness ==
    /\ pc = "done" /\ Len(submitted) = 1
    /\ \E i \in 1..Len(submitted[1]) :
          /\ submitted[1][i].metadata.gs = AltNum(100)
          /\ submitted[1][i].speed = Some(514444400)

(* The column names of a CSV text, in lower case. *)
HeaderNames(text) ==
    LET cols == Split(Split(text, "\n")[1], ",")
    IN  [j \in 1..Len(cols) |-> ToLowerCase(Trim(cols[j]))]

(* The data lines of a CSV text that are not blank. *)
DataLines(text) == SelectSeq(Tail(Split(text, "\n")), LAMBDA l : Trim(l) # <<>>)

(* The cell of a data line in the column of the name: undefined when the text has no
   such column, the line has no such cell, or the cell is blank. *)
CellOf(text, line, name) ==
    LET values == Split(Trim(line), ",")
        at == {j \in 1..Len(values) :
                  /\ j <= Len(HeaderNames(text))
                  /\ HeaderNames(text)[j] = name
                  /\ Trim(values[j]) # <<>>}
    IN  IF at = {} THEN Undefined
        ELSE Some(Trim(values[CHOOSE j \in at : \A k \in at : k <= j]))

(* C25: parseCSV returns one include entry per non-blank data line; a column is found by
   its name whatever the case of the header; domain is 'MIL' and group is 'UNKNOWN' when
   the column is missing or the cell is empty; an optional field is set only for a
   non-empty cell. *)
C25_ParseCsv ==
    (pc = "index" /\ csv = "merged") =>
        LET text == Val(csvData)
            lines == DataLines(text)
        IN  /\ Len(allIncludes) = Len(lines)
            /\ \A k \in 1..Len(lines) :
                  LET entry == allIncludes[k]
                      cell(name) == CellOf(text, lines[k], name)
                  IN  /\ entry.domain = IF IsDef(cell(<<"domain">>))
                                        THEN Val(cell(<<"domain">>)) ELSE <<"MIL">>
                      /\ entry.group = IF IsDef(cell(<<"group">>))
                                       THEN cell(<<"group">>) ELSE Some(<<"UNKNOWN">>)
                      /\ entry.agency = cell(<<"agency">>)
                      /\ entry.ICAO_hex = cell(<<"icao", "_", "hex">>)
                      /\ entry.registration = cell(<<"registration">>)
                      /\ entry.callsign = cell(<<"callsign">>)
                      /\ entry.cot_type = IF IsDef(cell(<<"type">>)) THEN cell(<<"type">>)
                                          ELSE cell(<<"cot", "_", "type">>)
                      /\ entry.comments = IF IsDef(cell(<<"comment">>)) THEN cell(<<"comment">>)
                                          ELSE cell(<<"comments">>)

(* C25 witness: the text 'Domain, ICAO_HEX ,Registration,Group' with the lines
   'EMS,,a1,,,,,,' and ',N2 ' was parsed into two entries: domain 'EMS' with the group
   defaulted and no ICAO hex, and domain defaulted to 'MIL' with ICAO hex 'N2'. *)
C25_Witness ==
    /\ pc = "index" /\ csv = "merged"
    /\ csvData = Some(<<"Domain", ",", " ", "ICAO", "_", "HEX", " ", ",", "Registration", ",",
                        "Group", "\n",
                        "EMS", ",", ",", "a1", ",", ",", ",", ",", ",", "\n",
                        ",", "N2", " ">>)
    /\ Len(allIncludes) = 2
    /\ allIncludes[1].domain = <<"EMS">>
    /\ allIncludes[1].group = Some(<<"UNKNOWN">>)
    /\ allIncludes[1].ICAO_hex = Undefined
    /\ allIncludes[1].registration = Some(<<"a1">>)
    /\ allIncludes[2].domain = <<"MIL">>
    /\ allIncludes[2].ICAO_hex = Some(<<"N2">>)

(* The descriptions of the three download methods, in the order the claim gives. *)
MethodOrder ==
    <<"Standard export download", "Google Sheets export", "Alternative export format">>

IsHelperAttempt(a) == \E i \in 1..3 : a.by = MethodOrder[i]

IsFallbackAttempt(a) == a.by = "Fallback standard fetch"

HelperAttempts == SelectSeq(attempts, IsHelperAttempt)

FallbackAttempts == SelectSeq(attempts, IsFallbackAttempt)

(* The helper's fetches come first and in the order of the methods; a method that
   delivered a text is the last fetch of the run; the fallback fetch is made once, and
   only after the helper raised; any other URL is fetched once, as configured. *)
DownloadOrder ==
    IF IsGoogleDrive(env.ADSBX_Includes_URL)
    THEN /\ attempts = HelperAttempts \o FallbackAttempts
         /\ Len(HelperAttempts) <= 3
         /\ \A i \in 1..Len(HelperAttempts) :
               /\ HelperAttempts[i].by = MethodOrder[i]
               /\ HelperAttempts[i].outcome = "text" =>
                     /\ i = Len(attempts)
                     /\ raised = Undefined
                     /\ IsDef(csvData) /\ Trim(Val(csvData)) # <<>>
         /\ Len(FallbackAttempts) <= 1
         /\ Len(FallbackAttempts) = 1 => IsDef(raised)
         /\ (IsDef(raised) /\ pc \in {"received", "index"}) => Len(FallbackAttempts) = 1
         /\ Len(attempts) <= 4
    ELSE /\ Len(attempts) <= 1
         /\ pc # "download" =>
               /\ Len(attempts) = 1
               /\ attempts[1].by = "Standard fetch"
               /\ attempts[1].url = env.ADSBX_Includes_URL

(* The download step ended with a text that was parsed, or with a failure that left the
   configured entries as the include list. *)
DownloadEnded ==
    pc = "index" =>
        /\ csv \in {"merged", "empty", "failed"}
        /\ csv = "merged" => IsDef(csvData) /\ Trim(Val(csvData)) # <<>>
        /\ csv # "merged" => allIncludes = env.ADSBX_Includes

(* Before the end of the download step there is a step to take. *)
DownloadGoesOn ==
    /\ pc \in {"download", "fallback", "received", "index"}
    /\ pc = "download" =>
          \/ ~IsGoogleDrive(env.ADSBX_Includes_URL) /\ attempts = <<>>
          \/ /\ IsGoogleDrive(env.ADSBX_Includes_URL)
             /\ Len(attempts) < 3
             /\ Len(attempts) > 0 => extractGoogleDriveFileId(env.ADSBX_Includes_URL) # <<>>
    /\ pc = "received" => IsDef(csvData)

(* The steps the download can still take are at most this many. *)
StepsLeft ==
    CASE pc = "download" -> 6 - Len(attempts)
      [] pc = "fallback" -> 2
      [] pc = "received" -> 1
      [] OTHER -> 0

(* C30: for a Google Drive URL the download tries the three methods in order (standard
   export, Sheets export, alternative export), returns the text of the first that answers
   OK with a non-empty text without trying the later ones, and raises the last error only
   after all three have failed; the task then makes exactly one fallback fetch; a run
   makes at most four fetches for a Google Drive URL and exactly one for any other URL,
   and ends with a CSV text or a handled failure. *)
C30_ThreeMethodsThenFallback ==
    /\ DownloadOrder
    /\ DownloadEnded
    /\ IsDef(raised) =>
          /\ Len(HelperAttempts) = 3
          /\ \A i \in 1..3 : HelperAttempts[i].outcome # "text"
          /\ raised = Some(HelperAttempts[3].outcome)

(* C30 as amended: as C30 for a Google Drive URL from which a file id can be extracted;
   for a Google Drive URL without one the helper raises at once, before any fetch; in
   both cases the task then makes exactly one fallback fetch.  A run makes at most four
   fetches for a Google Drive URL and exactly one for any other URL, every step of the
   download brings its end nearer, and it ends with a CSV text or a handled failure. *)
C30_DownloadTerminates ==
    /\ [](/\ DownloadOrder
          /\ DownloadEnded
          /\ DownloadGoesOn
          /\ IsDef(raised) =>
                IF extractGoogleDriveFileId(env.ADSBX_Includes_URL) = <<>>
                THEN /\ HelperAttempts = <<>>
                     /\ raised = Some("Could not extract file ID from Google Drive URL")
                ELSE /\ Len(HelperAttempts) = 3
                     /\ \A i \in 1..3 : HelperAttempts[i].outcome # "text"
                     /\ raised = Some(HelperAttempts[3].outcome))
    /\ [][StepsLeft' < StepsLeft]_vars

(* C30 witness: for the URL 'https://drive.google.com/file/d/FILE1/view?usp=sharing' the
   three methods failed in order, the fallback fetch of the standard export URL answered
   with a text, and the text was merged: four fetches. *)
C30_Witness ==
    /\ pc = "index" /\ csv = "merged"
    /\ env.ADSBX_Includes_URL
          = <<"https://", "drive.google.com", "/file/d/", "FILE1", "/", "view?usp=sharing">>
    /\ Len(attempts) = 4
    /\ attempts[1].by = "Standard export download" /\ attempts[1].outcome = "status"
    /\ attempts[2].by = "Google Sheets export" /\ attempts[2].outcome = "empty"
    /\ attempts[2].url = <<"https://", "docs.google.com", "/spreadsheets", "/d/", "FILE1",
                           "/", "export?format=csv">>
    /\ attempts[3].by = "Alternative export format" /\ attempts[3].outcome = "throws"
    /\ raised = Some("throws")
    /\ attempts[4].by = "Fallback standard fetch" /\ attempts[4].outcome = "text"
    /\ attempts[4].url = <<"https://", "drive.google.com", "/", "uc?", "export=download", "&",
                           "id=", "FILE1">>

(* The remarks have the line of the label with this value, or no line of the label
   when there is no value to show. *)
LineIs(text, label, value) ==
    IF IsDef(value) /\ Val(value) # <<>>
    THEN HasExactLine(text, RemarkLine(label, Val(value)))
    ELSE ~HasLine(text, label)

(* The group shown in the remarks: none for no group, 'None' and 'UNKNOWN'. *)
ShownGroup(group) ==
    IF IsDef(group) /\ Val(group) # <<>> /\ Trim(Val(group)) \notin {<<"None">>, <<"UNKNOWN">>}
    THEN Some(Trim(ReplaceUnderscores(Val(group)))) ELSE Undefined

ShownText(text) == IF IsDef(text) THEN Some(Trim(Val(text))) ELSE Undefined

(* C26: in filter mode, an aircraft that matches one entry A by hex and another entry B
   by registration is emitted with the group, comments, callsign and agency of A, and
   with the remarks lines of these values; a field A does not define is as the provider
   sent it (absent), whatever B defines. *)
C26_HexEntryWins ==
    FilterDone =>
        \A i \in 1..Len(submitted[1]) :
            LET feat == submitted[1][i]
                ac == feat.metadata
                A == Val(MapGet(hexMap, HexKeyOf(ac)))
                callsign == IF IsDef(A.callsign)
                            THEN Some(ExpectedCallsign(Val(A.callsign), ac)) ELSE Undefined
            IN  (/\ InHexIndex(ac)
                 /\ InRegistrationIndex(ac)
                 /\ MapGet(hexMap, HexKeyOf(ac)) # MapGet(includesMap, RegKeyOf(ac))) =>
                    /\ ac.group = A.group
                    /\ ac.comments = A.comments
                    /\ ac.callsign = callsign
                    /\ ac.agency = A.agency
                    /\ LineIs(feat.remarks, LblGroup, ShownGroup(A.group))
                    /\ LineIs(feat.remarks, LblComments, ShownText(A.comments))
                    /\ LineIs(feat.remarks, LblCallsign, ShownText(callsign))
                    /\ LineIs(feat.remarks, LblAgency, ShownText(A.agency))

(* C26 witness: an emitted aircraft matched A by hex and B by registration, where B
   defines comments and A does not; it has the group of A and its Group line, and
   neither comments nor a Comments line. *)
C26_Witness ==
    /\ FilterDone
    /\ \E i \in 1..Len(submitted[1]) :
          LET feat == submitted[1][i]
              ac == feat.metadata
              A == Val(MapGet(hexMap, HexKeyOf(ac)))
              B == Val(MapGet(includesMap, RegKeyOf(ac)))
          IN  /\ InHexIndex(ac)
              /\ InRegistrationIndex(ac)
              /\ A # B
              /\ IsDef(B.comments) /\ ~IsDef(A.comments)
              /\ A.group = Some(FIRE_ROTOR) /\ B.group # A.group
              /\ ac.group = Some(FIRE_ROTOR)
              /\ HasExactLine(feat.remarks, <<"Group", ":", " ", "FIRE", "-", "ROTOR">>)
              /\ ac.comments = Undefined
              /\ ~HasLine(feat.remarks, LblComments)

(* The features of an id: the one assembled, and the ones submitted. *)
FeaturesOf(id) == {feat \in AllFeatures : feat.id = id}

(* C27: the overlay touches only what the matched entry defines: a field among group,
   cot_type, comments, agency and callsign that the matched entry does not define keeps
   the value the provider sent; an aircraft that matches no entry keeps all five, and
   its feature has the default symbology and no icon, in either mode. *)
C27_OverlayFrame ==
    Assembled =>
        \A i \in 1..Len(body) :
            (~Skipped(body[i]) /\ i = Last(RecordsOf(HexKeyOf(body[i])))) =>
                \A feat \in FeaturesOf(HexKeyOf(body[i])) :
                    LET prov == body[i]
                        ac == feat.metadata
                        entry == Lookup(prov)
                    IN  IF IsDef(entry)
                        THEN /\ ~IsDef(Val(entry).group) => ac.group = prov.group
                             /\ ~IsDef(Val(entry).cot_type) => ac.cot_type = prov.cot_type
                             /\ ~IsDef(Val(entry).comments) => ac.comments = prov.comments
                             /\ ~IsDef(Val(entry).agency) => ac.agency = prov.agency
                             /\ ~IsDef(Val(entry).callsign) => ac.callsign = prov.callsign
                        ELSE /\ ac.group = prov.group
                             /\ ac.cot_type = prov.cot_type
                             /\ ac.comments = prov.comments
                             /\ ac.agency = prov.agency
                             /\ ac.callsign = prov.callsign
                             /\ (~IsDef(prov.group) /\ ~IsDef(prov.cot_type)) =>
                                   /\ feat.type = DefaultType(prov)
                                   /\ feat.icon = Undefined

(* The lines of a text. *)
LinesOf(text) == {Split(text, "\n")[i] : i \in 1..Len(Split(text, "\n"))}

(* A line that is not the line of one of the four labels the filter pass updates. *)
OtherContent(line) ==
    ~(HasLabel(line) /\ LineKey(line) \in {LblGroup, LblComments, LblCallsign, LblAgency})

(* C28: the filter pass preserves the other content of the remarks: every line of the
   assembled remarks whose label is not Group, Comments, Callsign or Agency is a line of
   the remarks of the emitted feature, which has no line of that label with another
   value. *)
C28_OtherRemarksKept ==
    FilterDone =>
        \A i \in 1..Len(submitted[1]) :
            LET before == Val(MapGet(assembled, submitted[1][i].id)).remarks
                after == submitted[1][i].remarks
            IN  \A line \in LinesOf(before) :
                    OtherContent(line) =>
                        /\ line \in LinesOf(after)
                        /\ HasLabel(line) =>
                              \A other \in LinesOf(after) :
                                  (HasLabel(other) /\ LineKey(other) = LineKey(line)) =>
                                      other = line

(* C29: in filter mode, every emitted feature whose matched entry defines a callsign has
   as its callsign property the final callsign of the record, the template with the
   token replaced by the live callsign, trimmed: whether the aircraft matched by hex or
   only by registration. *)
C29_CallsignProperty ==
    FilterDone =>
        \A i \in 1..Len(submitted[1]) :
            LET feat == submitted[1][i]
                entry == Lookup(feat.metadata)
            IN  (IsDef(entry) /\ IsDef(Val(entry).callsign)) =>
                    feat.callsign = Trim(ExpectedCallsign(Val(Val(entry).callsign), feat.metadata))

====
